---- MODULE Spec2Model ----
(***************************************************************************)
(* Model of the connection-level message transport of                      *)
(* src/src/mongo/util/net/message_port.cpp: MessagingPort::recv, say,      *)
(* call, piggyBack, shutdown and the PiggyBackData buffer, over a          *)
(* byte-exact transport.                                                   *)
(*                                                                         *)
(* Two handles are the two ends of one connection: what handle p sends     *)
(* arrives, in order and unchanged, in stream[Peer(p)], which the peer     *)
(* reads from offset bytesIn[Peer(p)] on.  The remote                      *)
(* application may also write raw bytes on its end (an endian probe, an    *)
(* HTTP GET, a malformed header, a header whose payload has not arrived).  *)
(*                                                                         *)
(* Byte strings are run-length encoded (a sequence of runs [b, n] with     *)
(* adjacent runs of different bytes), which is a canonical form of the     *)
(* byte string, so that a payload of MaxMessageSizeBytes bytes is a state  *)
(* TLC can hold.                                                           *)
(***************************************************************************)
EXTENDS Integers, Sequences, FiniteSets, TLC

\* ------------------------------------------------------------------------
\* Bounds of the model
\* ------------------------------------------------------------------------

\* Number of operations the callers and the remote side start in one run.
MaxOps == 3

\* ------------------------------------------------------------------------
\* Program constants
\* ------------------------------------------------------------------------

\* sizeof(MSGHEADER::Value)
HeaderLen == 16

\* "GET " read as a little-endian int32
HTTPMagic == 542393671

\* the endian probe
EndianProbe == -1

\* unsigned foo = 0x10203040
EndianMagic == 270544960

\* capacity of the piggyback buffer, and the threshold of say/piggyBack
PiggyBackSize == 1300

\* granularity of the receive buffer
RecvBufGranule == 1024

\* 0xfffffc00, as the int of that bit pattern
RecvBufMask == -1024

\* framing upper bound (mongo/util/net/message.h: 48 * 1000 * 1000)
MaxMessageSizeBytes == 48000000

\* ------------------------------------------------------------------------
\* Byte strings (run-length encoded)
\* ------------------------------------------------------------------------

Run(b, n) == [b |-> b, n |-> n]

RAppendRun(s, b, n) ==
    IF n = 0 THEN s
    ELSE IF s # << >> /\ s[Len(s)].b = b
         THEN [s EXCEPT ![Len(s)].n = @ + n]
         ELSE Append(s, Run(b, n))

\* concatenation of two canonical byte strings
RCat(s, t) ==
    IF t = << >> THEN s
    ELSE RAppendRun(s, t[1].b, t[1].n) \o Tail(t)

RECURSIVE RLen(_)
RLen(s) ==
    IF s = << >> THEN 0
    ELSE IF Len(s) = 1 THEN s[1].n
    ELSE LET half == Len(s) \div 2
         IN  RLen(SubSeq(s, 1, half)) + RLen(SubSeq(s, half + 1, Len(s)))

\* the first k bytes of s (k <= RLen(s))
RECURSIVE RTake(_, _)
RTake(s, k) ==
    IF k = 0 \/ s = << >> THEN << >>
    ELSE IF s[1].n <= k
         THEN << s[1] >> \o RTake(Tail(s), k - s[1].n)
         ELSE << Run(s[1].b, k) >>

\* s without its first k bytes (k <= RLen(s))
RECURSIVE RDrop(_, _)
RDrop(s, k) ==
    IF k = 0 \/ s = << >> THEN s
    ELSE IF s[1].n <= k
         THEN RDrop(Tail(s), k - s[1].n)
         ELSE << Run(s[1].b, s[1].n - k) >> \o Tail(s)

\* a byte string from a sequence of bytes
RECURSIVE RFromBytes(_)
RFromBytes(q) ==
    IF q = << >> THEN << >>
    ELSE IF Len(q) = 1 THEN << Run(q[1], 1) >>
    ELSE LET half == Len(q) \div 2
         IN  RCat(RFromBytes(SubSeq(q, 1, half)),
                  RFromBytes(SubSeq(q, half + 1, Len(q))))

\* the sequence of bytes of a (short) byte string
RECURSIVE RToBytes(_)
RToBytes(s) ==
    IF s = << >> THEN << >>
    ELSE IF Len(s) = 1 THEN [i \in 1..s[1].n |-> s[1].b]
    ELSE LET half == Len(s) \div 2
         IN  RToBytes(SubSeq(s, 1, half)) \o RToBytes(SubSeq(s, half + 1, Len(s)))

\* ------------------------------------------------------------------------
\* 32-bit fields on the wire
\* ------------------------------------------------------------------------

\* the four bytes of a 32-bit two's complement value, least significant first
LittleEndian32(v) ==
    << v % 256, (v \div 256) % 256, (v \div 65536) % 256, (v \div 16777216) % 256 >>

\* the memory image of a 32-bit value on the host
HostOrder32(v, little) ==
    LET le == LittleEndian32(v)
    IN  IF little THEN le ELSE << le[4], le[3], le[2], le[1] >>

\* the signed 32-bit value of four little-endian bytes
ReadLE32(b) ==
    b[1] + b[2] * 256 + b[3] * 65536
         + (IF b[4] >= 128 THEN b[4] - 256 ELSE b[4]) * 16777216

\* MSGHEADER layout: messageLength, requestID, responseTo, opCode
HeaderBytes(len, id, responseTo, opCode) ==
    LittleEndian32(len) \o LittleEndian32(id)
        \o LittleEndian32(responseTo) \o LittleEndian32(opCode)

getMessageLength(h) == ReadLE32(SubSeq(h, 1, 4))
getId(h)            == ReadLE32(SubSeq(h, 5, 8))
getResponseTo(h)    == ReadLE32(SubSeq(h, 9, 12))
getOpCode(h)        == ReadLE32(SubSeq(h, 13, 16))

\* ------------------------------------------------------------------------
\* Message: an owned buffer, << >> when empty
\* ------------------------------------------------------------------------

EmptyMessage == << >>

MsgHeader(m) == RToBytes(RTake(m, HeaderLen))
MsgLen(m)    == getMessageLength(MsgHeader(m))
MsgPayload(m) == RDrop(m, HeaderLen)

\* a caller-built message: header and len-16 payload bytes of value fill
MakeMessage(len, id, responseTo, opCode, fill) ==
    RCat(RFromBytes(HeaderBytes(len, id, responseTo, opCode)),
         IF len > HeaderLen THEN << Run(fill, len - HeaderLen) >> ELSE << >>)

\* the two setters with their arguments exchanged
Stamp_SwapsFields(m, id, responseTo) ==
    LET h == MsgHeader(m)
    IN  RCat(RFromBytes(HeaderBytes(getMessageLength(h), responseTo, id, getOpCode(h))),
             MsgPayload(m))

\* the stamping with the id left as the caller passed it
Stamp_KeepsId(m, id, responseTo) ==
    LET h == MsgHeader(m)
    IN  RCat(RFromBytes(HeaderBytes(getMessageLength(h), getId(h), responseTo,
                                    getOpCode(h))),
             MsgPayload(m))

\* header().setId(id); header().setResponseTo(responseTo)
Stamp(m, id, responseTo) ==
    LET h == MsgHeader(m)
    IN  RCat(RFromBytes(HeaderBytes(getMessageLength(h), id, responseTo, getOpCode(h))),
             MsgPayload(m))

\* ------------------------------------------------------------------------
\* The canned HTTP answer of recv() (lines 179-183)
\* ------------------------------------------------------------------------

\* "It looks like you are trying to access MongoDB over HTTP on the native
\* driver port.\n"
HttpMsg ==
    << 73, 116, 32, 108, 111, 111, 107, 115, 32, 108, 105, 107, 101, 32, 121, 111,
       117, 32, 97, 114, 101, 32, 116, 114, 121, 105, 110, 103, 32, 116, 111, 32,
       97, 99, 99, 101, 115, 115, 32, 77, 111, 110, 103, 111, 68, 66, 32, 111,
       118, 101, 114, 32, 72, 84, 84, 80, 32, 111, 110, 32, 116, 104, 101, 32,
       110, 97, 116, 105, 118, 101, 32, 100, 114, 105, 118, 101, 114, 32, 112, 111,
       114, 116, 46, 10 >>

\* "HTTP/1.0 200 OK\r\nConnection: close\r\nContent-Type: text/plain\r\n
\* Content-Length: "
HttpHead ==
    << 72, 84, 84, 80, 47, 49, 46, 48, 32, 50, 48, 48, 32, 79, 75, 13,
       10, 67, 111, 110, 110, 101, 99, 116, 105, 111, 110, 58, 32, 99, 108, 111,
       115, 101, 13, 10, 67, 111, 110, 116, 101, 110, 116, 45, 84, 121, 112, 101,
       58, 32, 116, 101, 120, 116, 47, 112, 108, 97, 105, 110, 13, 10, 67, 111,
       110, 116, 101, 110, 116, 45, 76, 101, 110, 103, 116, 104, 58, 32 >>

\* "\r\n\r\n"
HttpBlankLine == << 13, 10, 13, 10 >>

\* operator<< of an unsigned integer: its decimal digits in ASCII
RECURSIVE Decimal(_)
Decimal(n) ==
    IF n < 10 THEN << 48 + n >>
    ELSE Append(Decimal(n \div 10), 48 + (n % 10))

\* the answer with a Content-Length that counts the terminator of a C string
HttpResponse_CStringLength ==
    HttpHead \o Decimal(Len(HttpMsg) + 1) \o HttpBlankLine \o HttpMsg

\* ss << head << msg.size() << "\r\n\r\n" << msg
HttpResponse ==
    HttpHead \o Decimal(Len(HttpMsg)) \o HttpBlankLine \o HttpMsg

\* the echo written in network byte order, whatever the host
EndianReply_NetworkOrder(little) == HostOrder32(EndianMagic, FALSE)

\* s.c_str(), s.size(): the bytes handed to send()
HttpResponseBytes == RFromBytes(HttpResponse)

\* send( (char *) &foo, 4, "endian" )
EndianReply(little) == HostOrder32(EndianMagic, little)

\* ------------------------------------------------------------------------
\* State
\* ------------------------------------------------------------------------

Handles == {1, 2}
Peer(p) == 3 - p

VARIABLES
    MONGO_SSL,          \* build: compiled with TLS support
    SSLEnabled,         \* client::Options::current().SSLEnabled()
    SSLMode,            \* client::Options::current().SSLMode()
    littleEndianHost,   \* byte order of the host
    NextMsgId,          \* the process-wide id counter
    ops,                \* operations started so far
    pc,                 \* where each handle's flow stands
    op,                 \* the public operation in progress or last completed
    ret,                \* how the last completed operation of the handle ended
    inCall,             \* recv() runs inside call()'s loop
    toSendId,           \* toSend.header().getId() of the call in progress
    header,             \* recv(): the local MSGHEADER::Value header
    msg,                \* the caller's output Message of recv()/call()
    rbuf,               \* recv(): the malloc'ed buffer and who owns it
    nMalloc,            \* receive buffers allocated by the handle
    awaitingHandshake,  \* Socket::_awaitingHandshake
    sslFirstBytes,      \* the firstBytes of each doSSLHandshake call
    secured,            \* a doSSLHandshake call has completed
    sock,               \* the handle's transport: "open" or "closed"
    stream,             \* every byte written towards the handle, in order
    writes,             \* the transport writes of the handle, in order
    bytesIn,            \* bytes the handle has read from its stream
    piggyBackData,      \* the PiggyBackData of the handle
    ports,              \* Ports::ports, the registry of live handles
    tag,                \* the tag of each handle
    shutdowns,          \* who has invoked shutdown() on each handle, in order
    connectionId,       \* AbstractMessagingPort::_connectionId of each handle
    mutex,              \* Ports::m: "free" or the closeAll flow that holds it
    closeAllFlow,       \* where each flow that calls closeAll stands
    calls               \* the send operations of each handle, in call order,
                        \* with the caller's toSend as the call left it

cfgVars == << MONGO_SSL, SSLEnabled, SSLMode, littleEndianHost, tag >>
recvVars == << header, msg, rbuf, nMalloc, awaitingHandshake, sslFirstBytes,
              secured, bytesIn >>
flowVars == << pc, op, ret, inCall, toSendId >>
lockVars == << mutex, closeAllFlow >>
vars == << MONGO_SSL, SSLEnabled, SSLMode, littleEndianHost, NextMsgId, ops,
           pc, op, ret, inCall, toSendId, header, msg, rbuf, nMalloc,
           awaitingHandshake, sslFirstBytes, secured, sock, stream, writes,
           bytesIn, piggyBackData, ports, tag, shutdowns, connectionId, mutex,
           closeAllFlow, calls >>

NoBuffer == [z |-> 0, owner |-> "none", frees |-> 0]
NoPiggyBack == [alloc |-> FALSE, data |-> << >>]

\* The builds and configurations: without MONGO_SSL the options do not matter.
Configs ==
    { << FALSE, FALSE, "kSSLDisabled", little >> : little \in BOOLEAN } \cup
    { << TRUE, e, m, TRUE >> : e \in BOOLEAN, m \in {"kSSLDisabled", "kSSLRequired"} }

\* the tag a handle has when the application has set none
DefaultTag == 0

\* the flows of the process that call closeAllSockets
Closers == {"c1", "c2"}

\* a flow that is not inside closeAll: no mask, the iterator nowhere, no
\* handle touched
NotInCloseAll == [pc |-> "idle", skip_mask |-> 0, i |-> 0, seen |-> {}, touched |-> {}]

\* the state after the construction of the handles of live, with the tags
\* the application gives the handles, the id counter standing at id, and
\* the bytes in1 already written towards handle 1
InitState(id, tags, live, in1) ==
    /\ \E c \in Configs :
          /\ MONGO_SSL = c[1]
          /\ SSLEnabled = c[2]
          /\ SSLMode = c[3]
          /\ littleEndianHost = c[4]
    /\ NextMsgId = id
    /\ ops = 0
    /\ tag = tags
    /\ shutdowns = [p \in Handles |-> << >>]
    /\ pc = [p \in Handles |-> IF p \in live THEN "idle" ELSE "unborn"]
    /\ op = [p \in Handles |-> "none"]
    /\ ret = [p \in Handles |-> "none"]
    /\ inCall = [p \in Handles |-> FALSE]
    /\ toSendId = [p \in Handles |-> 0]
    /\ header = [p \in Handles |-> << >>]
    /\ msg = [p \in Handles |-> EmptyMessage]
    /\ rbuf = [p \in Handles |-> NoBuffer]
    /\ nMalloc = [p \in Handles |-> 0]
    /\ awaitingHandshake = [p \in Handles |-> TRUE]
    /\ sslFirstBytes = [p \in Handles |-> << >>]
    /\ secured = [p \in Handles |-> FALSE]
    /\ sock = [p \in Handles |-> IF p \in live THEN "open" ELSE "none"]
    /\ stream = [p \in Handles |-> IF p = 1 THEN in1 ELSE << >>]
    /\ writes = [p \in Handles |-> << >>]
    /\ bytesIn = [p \in Handles |-> 0]
    /\ piggyBackData = [p \in Handles |-> NoPiggyBack]
    /\ ports = live
    /\ connectionId = [p \in Handles |-> 0]
    /\ mutex = "free"
    /\ closeAllFlow = [c \in Closers |-> NotInCloseAll]
    /\ calls = [p \in Handles |-> << >>]

\* both handles constructed and untagged, nothing written yet
InitAt(id) == InitState(id, [p \in Handles |-> DefaultTag], Handles, << >>)

Init == InitAt(1)

\* where the id counter may stand when the handles are constructed: at its
\* start, just below -1, and just below the end of the 32-bit range
FirstIds == {1, -3, 2147483646}

\* ------------------------------------------------------------------------
\* Transport (Socket), consumed through psock
\* ------------------------------------------------------------------------

RECURSIVE RCatAll(_, _)
RCatAll(s, blocks) ==
    IF blocks = << >> THEN s
    ELSE RCatAll(RCat(s, blocks[1]), Tail(blocks))

\* the bytes handle p has not read yet
Unread(p) == RDrop(stream[p], bytesIn[p])

\* psock->recv(buf, n) returns once n bytes have arrived
CanRead(p, n) == sock[p] = "open" /\ RLen(stream[p]) - bytesIn[p] >= n

\* the streams after handle p has written blocks, in order
StreamAfter(p, blocks) ==
    [q \in Handles |-> IF q = p THEN stream[q] ELSE RCatAll(stream[q], blocks)]

\* the write log of p after it has written blocks
WritesAfter(p, blocks) == [writes EXCEPT ![p] = @ \o blocks]

\* ------------------------------------------------------------------------
\* MessagingPort::recv(Message& m)
\* ------------------------------------------------------------------------

IsHttpGet(len) == len = HTTPMagic

IsEndianCheck(len) == len = EndianProbe

\* the detection with the comparison against -1 left out
AssumeSSL_ZeroOnly(h) == getResponseTo(h) # 0

\* "If responseTo is not 0 or -1 for first packet assume SSL"
AssumeSSL(h) == getResponseTo(h) # 0 /\ getResponseTo(h) # -1

\* the length check with the cast of the upper comparison forgotten
LenInvalid_SignedMax(len) ==
    \/ (len >= 0 /\ len < HeaderLen)
    \/ len > MaxMessageSizeBytes

\* static_cast<size_t>(len) < sizeof(MSGHEADER::Value) ||
\* static_cast<size_t>(len) > MaxMessageSizeBytes: the cast takes a negative
\* len to a value of at least 2^31, which is above MaxMessageSizeBytes.
LenInvalid(len) ==
    \/ (len >= 0 /\ len < HeaderLen)
    \/ len < 0
    \/ len > MaxMessageSizeBytes

\* the bit of weight 2^i (i < 31) in the two's complement pattern of x
Bit32(x, i) == (x \div (2 ^ i)) % 2

\* the bits of weight 2^i .. 2^30 of x & y; there are none once one of the
\* two has no bit of that weight or above
RECURSIVE AndFrom(_, _, _)
AndFrom(x, y, i) ==
    IF i > 30 \/ x \div (2 ^ i) = 0 \/ y \div (2 ^ i) = 0 THEN 0
    ELSE Bit32(x, i) * Bit32(y, i) * (2 ^ i) + AndFrom(x, y, i + 1)

\* x & y on 32-bit two's complement patterns, read back as an int
And32(x, y) ==
    (IF x < 0 /\ y < 0 THEN -2147483647 - 1 ELSE 0) + AndFrom(x, y, 0)

\* the receive buffer rounded past the next multiple of 1024
RecvBufSize_AddsGranule(len) == And32(len + RecvBufGranule, RecvBufMask)

\* int z = (len+1023)&0xfffffc00, for a len that passed the length check
RecvBufSize(len) == And32(len + (RecvBufGranule - 1), RecvBufMask)

\* the payload length with the header counted in
PayloadLeft_WholeLength(len) == len

\* int left = len - headerLen
PayloadLeft(len) == len - HeaderLen

\* What recv() does with a header it has just read (lines 175-224).
RecvDispatch(h, awaiting) ==
    LET len == getMessageLength(h)
    IN  IF IsHttpGet(len) THEN "http"
        ELSE IF IsEndianCheck(len) THEN "endian"
        ELSE IF awaiting /\ ~MONGO_SSL /\ AssumeSSL(h) THEN "uassert17133"
        ELSE IF awaiting /\ MONGO_SSL /\ AssumeSSL(h)
             THEN (IF SSLEnabled THEN "sslHandshake" ELSE "uassert17132")
        ELSE IF awaiting /\ MONGO_SSL /\ SSLMode = "kSSLRequired" THEN "uassert17189"
        ELSE IF LenInvalid(len) THEN "invalid"
        ELSE IF RecvBufSize(len) < len THEN "verify"
        ELSE "message"

\* the loop of call() with the id comparison left out
CallLoop_AcceptsAny(ok, response, id) ==
    IF ~ok THEN "false" ELSE "true"

\* the loop of call() giving up on a mismatch instead of asserting
CallLoop_ReturnsFalse(ok, response, id) ==
    IF ~ok THEN "false"
    ELSE IF getResponseTo(MsgHeader(response)) = id THEN "true"
    ELSE "false"

\* MessagingPort::recv(const Message& toSend, Message& response): what the
\* loop of call() makes of one recv(response)
CallLoop(ok, response, id) ==
    IF ~ok THEN "false"
    ELSE IF getResponseTo(MsgHeader(response)) = id THEN "true"
    ELSE "verify"

\* how recv() ends for its caller, inside call() or not
RecvResult(p, ok, m) ==
    IF inCall[p] THEN CallLoop(ok, m, toSendId[p])
    ELSE IF ok THEN "true" ELSE "false"

\* a catch block that leaves the output Message as it found it
CatchSocketException_KeepsMessage(p) ==
    /\ msg' = msg
    /\ rbuf' = [rbuf EXCEPT ![p] =
                  IF @.owner = "guard"
                  THEN [@ EXCEPT !.owner = "freed", !.frees = @ + 1] ELSE @]
    /\ ret' = [ret EXCEPT ![p] = RecvResult(p, FALSE, EmptyMessage)]
    /\ pc' = [pc EXCEPT ![p] = "idle"]

\* a catch block reached with the guard dismissed: the buffer is not freed
CatchSocketException_GuardDismissed(p) ==
    /\ msg' = [msg EXCEPT ![p] = EmptyMessage]
    /\ rbuf' = rbuf
    /\ ret' = [ret EXCEPT ![p] = RecvResult(p, FALSE, EmptyMessage)]
    /\ pc' = [pc EXCEPT ![p] = "idle"]

\* the catch block of recv(): the guard frees the buffer, m.reset()
CatchSocketException(p) ==
    /\ msg' = [msg EXCEPT ![p] = EmptyMessage]
    /\ rbuf' = [rbuf EXCEPT ![p] =
                  IF @.owner = "guard"
                  THEN [@ EXCEPT !.owner = "freed", !.frees = @ + 1] ELSE @]
    /\ ret' = [ret EXCEPT ![p] = RecvResult(p, FALSE, EmptyMessage)]
    /\ pc' = [pc EXCEPT ![p] = "idle"]

\* the caller enters recv(m); m is a fresh Message or the one it used before
RecvBegin(p, fresh) ==
    /\ pc[p] = "idle"
    /\ pc' = [pc EXCEPT ![p] = "recv_hdr"]
    /\ op' = [op EXCEPT ![p] = "recv"]
    /\ inCall' = [inCall EXCEPT ![p] = FALSE]
    /\ msg' = [msg EXCEPT ![p] = IF fresh THEN EmptyMessage ELSE @]
    /\ UNCHANGED << cfgVars, connectionId, lockVars,
                    NextMsgId, ops, ret, toSendId, header, rbuf, nMalloc,
                    awaitingHandshake, sslFirstBytes, secured, sock, stream,
                    writes, bytesIn, piggyBackData, ports, calls, shutdowns >>

\* psock->recv(&header, 16) has returned: lines 175-232
RecvHeader(p) ==
    /\ pc[p] = "recv_hdr"
    /\ CanRead(p, HeaderLen)
    /\ \E h \in { RToBytes(RTake(Unread(p), HeaderLen)) } :
       \E d \in { RecvDispatch(h, awaitingHandshake[p]) } :
       LET len == getMessageLength(h)
           sent == IF d = "http" THEN << HttpResponseBytes >>
                   ELSE IF d = "endian"
                        THEN << RFromBytes(EndianReply(littleEndianHost)) >>
                        ELSE << >>
       IN  /\ header' = [header EXCEPT ![p] = h]
           /\ bytesIn' = [bytesIn EXCEPT ![p] = @ + HeaderLen]
           /\ stream' = StreamAfter(p, sent)
           /\ writes' = WritesAfter(p, sent)
           /\ sslFirstBytes' = [sslFirstBytes EXCEPT ![p] =
                 IF d = "sslHandshake" THEN Append(@, h) ELSE @]
           /\ \E handshakeOk \in (IF d = "sslHandshake" THEN BOOLEAN ELSE {TRUE}) :
                /\ awaitingHandshake' = [awaitingHandshake EXCEPT ![p] =
                      IF d = "endian" \/ d = "message"
                         \/ (d = "sslHandshake" /\ handshakeOk)
                      THEN FALSE ELSE @]
                /\ secured' = [secured EXCEPT ![p] =
                      IF d = "sslHandshake" /\ handshakeOk THEN TRUE ELSE @]
                /\ IF d = "endian" \/ (d = "sslHandshake" /\ handshakeOk)
                   THEN \* goto again
                        UNCHANGED << pc, ret, msg, rbuf, nMalloc >>
                   ELSE IF d = "message"
                   THEN \* malloc(z), memcpy of the header, psock->recv(md.data(), left)
                        /\ rbuf' = [rbuf EXCEPT ![p] =
                                      [z |-> RecvBufSize(len), owner |-> "guard",
                                       frees |-> 0]]
                        /\ nMalloc' = [nMalloc EXCEPT ![p] = @ + 1]
                        /\ pc' = [pc EXCEPT ![p] = "recv_body"]
                        /\ UNCHANGED << ret, msg >>
                   ELSE IF d = "sslHandshake"
                   THEN \* doSSLHandshake threw a SocketException
                        /\ CatchSocketException(p)
                        /\ UNCHANGED nMalloc
                   ELSE \* return false, or an assertion leaves recv()
                        /\ ret' = [ret EXCEPT ![p] =
                              IF d = "http" \/ d = "invalid"
                              THEN RecvResult(p, FALSE, msg[p]) ELSE d]
                        /\ pc' = [pc EXCEPT ![p] = "idle"]
                        /\ UNCHANGED << msg, rbuf, nMalloc >>
    /\ UNCHANGED << cfgVars, connectionId, lockVars,
                    NextMsgId, ops, op, inCall, toSendId, sock,
                    piggyBackData, ports, calls, shutdowns >>

\* psock->recv(md.data(), left) has returned: lines 234-238
RecvPayload(p) ==
    /\ pc[p] = "recv_body"
    /\ LET left == PayloadLeft(getMessageLength(header[p]))
           m == RCat(RFromBytes(header[p]), RTake(Unread(p), left))
       IN  /\ CanRead(p, left)
           /\ bytesIn' = [bytesIn EXCEPT ![p] = @ + left]
           /\ rbuf' = [rbuf EXCEPT ![p] = [@ EXCEPT !.owner = "message"]]
           /\ msg' = [msg EXCEPT ![p] = m]
           /\ ret' = [ret EXCEPT ![p] = RecvResult(p, TRUE, m)]
           /\ pc' = [pc EXCEPT ![p] = "idle"]
    /\ UNCHANGED << cfgVars, connectionId, lockVars,
                    NextMsgId, ops, op, inCall, toSendId, header,
                    nMalloc, awaitingHandshake, sslFirstBytes, secured, sock,
                    stream, writes, piggyBackData, ports, calls, shutdowns >>

\* the catch block tearing the handle out of the registry
RecvFail_ErasesHandle(p) ==
    /\ pc[p] \in {"recv_hdr", "recv_body"}
    /\ sock[p] # "open"
    /\ CatchSocketException(p)
    /\ ports' = ports \ {p}
    /\ UNCHANGED << cfgVars, connectionId, lockVars,
                    NextMsgId, ops, op, inCall, toSendId, header,
                    nMalloc, awaitingHandshake, sslFirstBytes, secured, sock,
                    stream, writes, bytesIn, piggyBackData, calls, shutdowns >>

\* a psock->recv of recv() throws a SocketException: lines 241-248
RecvFail(p) ==
    /\ pc[p] \in {"recv_hdr", "recv_body"}
    /\ sock[p] # "open"
    /\ CatchSocketException(p)
    /\ UNCHANGED << cfgVars, connectionId, lockVars,
                    NextMsgId, ops, op, inCall, toSendId, header,
                    nMalloc, awaitingHandshake, sslFirstBytes, secured, sock,
                    stream, writes, bytesIn, piggyBackData, ports, calls, shutdowns >>

\* ------------------------------------------------------------------------
\* PiggyBackData
\* ------------------------------------------------------------------------

\* The result of a piece of sending code: the exception that left it
\* ("none" when it returned), the bytes left in the piggyback buffer, and
\* the transport writes it made, in order.
Outcome(threw, data, sent) == [threw |-> threw, data |-> data, sent |-> sent]

\* a flush that sends the buffer and leaves the cursor where it was
PBFlush_KeepsCursor(data, open) ==
    IF RLen(data) = 0 THEN Outcome("none", data, << >>)
    ELSE IF open THEN Outcome("none", data, << data >>)
    ELSE Outcome("SocketException", data, << >>)

\* MessagingPort::send -> psock->send: throws once the transport is closed
\* PiggyBackData::flush()
PBFlush(data, open) ==
    IF RLen(data) = 0 THEN Outcome("none", data, << >>)
    ELSE IF open THEN Outcome("none", << >>, << data >>)
    ELSE Outcome("SocketException", data, << >>)

\* an append that copies its message although the flush before it failed
PBAppend_CopiesAfterFailedFlush(data, m, open) ==
    IF ~(MsgLen(m) <= PiggyBackSize) THEN Outcome("verify", data, << >>)
    ELSE LET f == IF RLen(data) + MsgLen(m) > PiggyBackSize
                  THEN PBFlush(data, open)
                  ELSE Outcome("none", data, << >>)
         IN  Outcome(f.threw, RCat(f.data, RTake(m, MsgLen(m))), f.sent)

\* PiggyBackData::append( Message& m )
PBAppend(data, m, open) ==
    IF ~(MsgLen(m) <= PiggyBackSize) THEN Outcome("verify", data, << >>)
    ELSE LET f == IF RLen(data) + MsgLen(m) > PiggyBackSize
                  THEN PBFlush(data, open)
                  ELSE Outcome("none", data, << >>)
         IN  IF f.threw # "none" THEN f
             ELSE Outcome("none", RCat(f.data, RTake(m, MsgLen(m))), f.sent)

\* ------------------------------------------------------------------------
\* MessagingPort::say, piggyBack, call, shutdown
\* ------------------------------------------------------------------------

\* the 32-bit successor of a counter value
Succ32(id) == IF id = 2147483647 THEN -2147483647 - 1 ELSE id + 1

\* nextMessageId(): the process-wide 32-bit counter, which emits neither 0
\* nor -1
NextId(id) == IF Succ32(id) \in {-1, 0} THEN 1 ELSE Succ32(id)

\* the default of say()'s responseTo parameter
DefaultResponseTo == 0

\* the opCode the callers of the model put in their messages (dbQuery)
OpCode == 2004

\* toSend.send( *this, "say" ): one transport write of the whole message
MessageSend(m, pbdata, open) ==
    IF open THEN Outcome("none", pbdata, << m >>)
    ELSE Outcome("SocketException", pbdata, << >>)

\* a say() that appends to the pending bytes whatever the length
SayStamped_AlwaysAppends(pb, m, open) ==
    IF pb.alloc /\ RLen(pb.data) > 0
    THEN LET a == PBAppend(pb.data, m, open)
         IN  IF a.threw # "none" THEN a
             ELSE LET f == PBFlush(a.data, open)
                  IN  Outcome(f.threw, f.data, a.sent \o f.sent)
    ELSE MessageSend(m, pb.data, open)

\* a say() whose message overtakes the pending bytes it cannot join
SayStamped_SendsFirst(pb, m, open) ==
    IF pb.alloc /\ RLen(pb.data) > 0
    THEN IF RLen(pb.data) + MsgLen(m) > PiggyBackSize
         THEN LET w == MessageSend(m, pb.data, open)
              IN  IF w.threw # "none" THEN w
                  ELSE LET f == PBFlush(pb.data, open)
                       IN  Outcome(f.threw, f.data, w.sent \o f.sent)
         ELSE LET a == PBAppend(pb.data, m, open)
              IN  IF a.threw # "none" THEN a
                  ELSE LET f == PBFlush(a.data, open)
                       IN  Outcome(f.threw, f.data, a.sent \o f.sent)
    ELSE MessageSend(m, pb.data, open)

\* say() that takes the separate-write path as soon as the buffer would
\* be filled to its end
SayStamped_FullIsOverflow(pb, m, open) ==
    IF pb.alloc /\ RLen(pb.data) > 0
    THEN IF RLen(pb.data) + MsgLen(m) >= PiggyBackSize
         THEN LET f == PBFlush(pb.data, open)
              IN  IF f.threw # "none" THEN f
                  ELSE LET w == MessageSend(m, f.data, open)
                       IN  Outcome(w.threw, w.data, f.sent \o w.sent)
         ELSE LET a == PBAppend(pb.data, m, open)
              IN  IF a.threw # "none" THEN a
                  ELSE LET f == PBFlush(a.data, open)
                       IN  Outcome(f.threw, f.data, a.sent \o f.sent)
    ELSE MessageSend(m, pb.data, open)

\* a say() that leaves the message it has joined to the pending bytes in
\* the buffer
SayStamped_SkipsFlush(pb, m, open) ==
    IF pb.alloc /\ RLen(pb.data) > 0
    THEN IF RLen(pb.data) + MsgLen(m) > PiggyBackSize
         THEN LET f == PBFlush(pb.data, open)
              IN  IF f.threw # "none" THEN f
                  ELSE LET w == MessageSend(m, f.data, open)
                       IN  Outcome(w.threw, w.data, f.sent \o w.sent)
         ELSE PBAppend(pb.data, m, open)
    ELSE MessageSend(m, pb.data, open)

\* say() after the message has been stamped (lines 297-310)
SayStamped(pb, m, open) ==
    IF pb.alloc /\ RLen(pb.data) > 0
    THEN IF RLen(pb.data) + MsgLen(m) > PiggyBackSize
         THEN LET f == PBFlush(pb.data, open)
              IN  IF f.threw # "none" THEN f
                  ELSE LET w == MessageSend(m, f.data, open)
                       IN  Outcome(w.threw, w.data, f.sent \o w.sent)
         ELSE LET a == PBAppend(pb.data, m, open)
              IN  IF a.threw # "none" THEN a
                  ELSE LET f == PBFlush(a.data, open)
                       IN  Outcome(f.threw, f.data, a.sent \o f.sent)
    ELSE MessageSend(m, pb.data, open)

\* the state after a piece of sending code of handle p with outcome e
Sends(p, e, alloc) ==
    /\ piggyBackData' = [piggyBackData EXCEPT ![p] = [alloc |-> alloc, data |-> e.data]]
    /\ stream' = StreamAfter(p, e.sent)
    /\ writes' = WritesAfter(p, e.sent)

\* one send operation of a handle: its name, the caller's toSend as the
\* operation left it, and the responseTo it was given
Call(name, m, responseTo) == [op |-> name, msg |-> m, responseTo |-> responseTo]

\* say(toSend, responseTo), entered as the public operation name
SayOp(p, toSend, responseTo, name) ==
    /\ pc[p] = "idle"
    /\ ops < MaxOps
    /\ ops' = ops + 1
    /\ IF toSend = EmptyMessage
       THEN \* verify( !toSend.empty() )
            /\ ret' = [ret EXCEPT ![p] = "verify"]
            /\ calls' = [calls EXCEPT ![p] = Append(@, Call(name, toSend, responseTo))]
            /\ UNCHANGED << NextMsgId, piggyBackData, stream, writes >>
       ELSE \E m \in { Stamp(toSend, NextMsgId, responseTo) } :
            \E e \in { SayStamped(piggyBackData[p], m, sock[p] = "open") } :
                /\ Sends(p, e, piggyBackData[p].alloc)
                /\ ret' = [ret EXCEPT ![p] =
                              IF e.threw = "none" THEN "void" ELSE e.threw]
                /\ calls' = [calls EXCEPT ![p] = Append(@, Call(name, m, responseTo))]
                /\ NextMsgId' = NextId(NextMsgId)
    /\ op' = [op EXCEPT ![p] = name]
    /\ UNCHANGED << cfgVars, connectionId, lockVars,
                    pc, inCall, toSendId, recvVars, sock, ports, shutdowns >>

\* void MessagingPort::say(Message& toSend, int responseTo)
Say(p, toSend, responseTo) == SayOp(p, toSend, responseTo, "say")

\* the reply stamped with the responseTo of the received message
Reply_CopiesResponseTo(p, response) ==
    /\ msg[p] # EmptyMessage
    /\ SayOp(p, response, getResponseTo(MsgHeader(msg[p])), "reply")

\* void MessagingPort::reply(Message& received, Message& response): the
\* caller replies to the Message it has received last
Reply(p, response) ==
    /\ msg[p] # EmptyMessage
    /\ SayOp(p, response, getId(MsgHeader(msg[p])), "reply")

\* void MessagingPort::reply(Message& received, Message& response,
\* MSGID responseTo)
ReplyTo(p, response, responseTo) ==
    /\ msg[p] # EmptyMessage
    /\ SayOp(p, response, responseTo, "replyTo")

\* a piggyBack that creates the buffer before it looks at the length
PiggyBack_AllocatesFirst(p, toSend, responseTo) ==
    /\ pc[p] = "idle"
    /\ ops < MaxOps
    /\ ops' = ops + 1
    /\ \E big \in { MsgLen(toSend) > PiggyBackSize } :
       \E m \in { Stamp(toSend, NextMsgId,
                        IF big THEN DefaultResponseTo ELSE responseTo) } :
       \E e \in { IF big
                  THEN SayStamped(piggyBackData[p], m, sock[p] = "open")
                  ELSE PBAppend(piggyBackData[p].data, m, sock[p] = "open") } :
           /\ Sends(p, e, TRUE)
           /\ ret' = [ret EXCEPT ![p] = IF e.threw = "none" THEN "void" ELSE e.threw]
           /\ calls' = [calls EXCEPT ![p] = Append(@, Call("piggyBack", m, responseTo))]
    /\ NextMsgId' = NextId(NextMsgId)
    /\ op' = [op EXCEPT ![p] = "piggyBack"]
    /\ UNCHANGED << cfgVars, connectionId, lockVars,
                    pc, inCall, toSendId, recvVars, sock, ports, shutdowns >>

\* void MessagingPort::piggyBack( Message& toSend , int responseTo )
PiggyBack(p, toSend, responseTo) ==
    /\ pc[p] = "idle"
    /\ ops < MaxOps
    /\ ops' = ops + 1
    /\ \E big \in { MsgLen(toSend) > PiggyBackSize } :
       \E m \in { Stamp(toSend, NextMsgId,
                        IF big THEN DefaultResponseTo ELSE responseTo) } :
       \E e \in { IF big
                  THEN SayStamped(piggyBackData[p], m, sock[p] = "open")
                  ELSE PBAppend(piggyBackData[p].data, m, sock[p] = "open") } :
           /\ Sends(p, e, piggyBackData[p].alloc \/ ~big)
           /\ ret' = [ret EXCEPT ![p] = IF e.threw = "none" THEN "void" ELSE e.threw]
           /\ calls' = [calls EXCEPT ![p] = Append(@, Call("piggyBack", m, responseTo))]
    /\ NextMsgId' = NextId(NextMsgId)
    /\ op' = [op EXCEPT ![p] = "piggyBack"]
    /\ UNCHANGED << cfgVars, connectionId, lockVars,
                    pc, inCall, toSendId, recvVars, sock, ports, shutdowns >>

\* bool MessagingPort::call(Message& toSend, Message& response): say(toSend),
\* then the loop of recv(toSend, response) is entered
CallBegin(p, toSend, fresh) ==
    /\ pc[p] = "idle"
    /\ ops < MaxOps
    /\ ops' = ops + 1
    /\ LET m == Stamp(toSend, NextMsgId, DefaultResponseTo)
           e == SayStamped(piggyBackData[p], m, sock[p] = "open")
       IN  /\ Sends(p, e, piggyBackData[p].alloc)
           /\ IF e.threw = "none"
              THEN /\ pc' = [pc EXCEPT ![p] = "recv_hdr"]
                   /\ ret' = ret
                   /\ inCall' = [inCall EXCEPT ![p] = TRUE]
              ELSE /\ pc' = pc
                   /\ ret' = [ret EXCEPT ![p] = e.threw]
                   /\ inCall' = [inCall EXCEPT ![p] = FALSE]
           /\ calls' = [calls EXCEPT ![p] = Append(@, Call("call", m, DefaultResponseTo))]
    /\ toSendId' = [toSendId EXCEPT ![p] = NextMsgId]
    /\ NextMsgId' = NextId(NextMsgId)
    /\ op' = [op EXCEPT ![p] = "call"]
    /\ msg' = [msg EXCEPT ![p] = IF fresh THEN EmptyMessage ELSE @]
    /\ UNCHANGED << cfgVars, connectionId, lockVars,
                    header, rbuf, nMalloc, awaitingHandshake,
                    sslFirstBytes, secured, bytesIn, sock, ports, shutdowns >>

\* a shutdown() that leaves the transport as it is
Shutdown_NoClose(p) ==
    /\ p \in ports
    /\ ops < MaxOps
    /\ ops' = ops + 1
    /\ shutdowns' = [shutdowns EXCEPT ![p] = Append(@, "shutdown")]
    /\ UNCHANGED << cfgVars, connectionId, lockVars,
                    NextMsgId, flowVars, recvVars, stream, writes,
                    piggyBackData, ports, calls, sock >>

\* a shutdown() that reports an error on a transport already closed
Shutdown_FailsWhenClosed(p) ==
    /\ p \in ports
    /\ ops < MaxOps
    /\ ops' = ops + 1
    /\ sock' = [sock EXCEPT ![p] = "closed"]
    /\ shutdowns' = [shutdowns EXCEPT ![p] = Append(@, "shutdown")]
    /\ ret' = [ret EXCEPT ![p] = IF sock[p] = "closed" THEN "SocketException" ELSE @]
    /\ UNCHANGED << cfgVars, connectionId, lockVars,
                    NextMsgId, pc, op, inCall, toSendId, recvVars,
                    stream, writes, piggyBackData, ports, calls >>

\* void MessagingPort::shutdown(): psock->close(), from any flow
Shutdown(p) ==
    /\ p \in ports
    /\ ops < MaxOps
    /\ ops' = ops + 1
    /\ sock' = [sock EXCEPT ![p] = "closed"]
    /\ shutdowns' = [shutdowns EXCEPT ![p] = Append(@, "shutdown")]
    /\ UNCHANGED << cfgVars, connectionId, lockVars,
                    NextMsgId, flowVars, recvVars, stream, writes,
                    piggyBackData, ports, calls >>

\* MessagingPort::~MessagingPort(), with no operation of the handle in
\* progress: ~PiggyBackData flushes inside DESTRUCTOR_GUARD, which swallows
\* what the flush throws; then shutdown() and ports.erase(this)
Destroy(p) ==
    /\ pc[p] = "idle"
    /\ ops < MaxOps
    /\ ops' = ops + 1
    /\ LET e == IF piggyBackData[p].alloc
                THEN PBFlush(piggyBackData[p].data, sock[p] = "open")
                ELSE Outcome("none", << >>, << >>)
       IN  /\ stream' = StreamAfter(p, e.sent)
           /\ writes' = WritesAfter(p, e.sent)
    /\ piggyBackData' = [piggyBackData EXCEPT ![p] = NoPiggyBack]
    /\ sock' = [sock EXCEPT ![p] = "closed"]
    /\ shutdowns' = [shutdowns EXCEPT ![p] = Append(@, "destructor")]
    /\ ports' = ports \ {p}
    /\ pc' = [pc EXCEPT ![p] = "destroyed"]
    /\ op' = [op EXCEPT ![p] = "destroy"]
    /\ ret' = [ret EXCEPT ![p] = "void"]
    /\ UNCHANGED << cfgVars, connectionId, lockVars,
                    NextMsgId, inCall, toSendId, recvVars, calls >>

\* a constructor that leaves the handle out of the registry
Construct_NoInsert(p) ==
    /\ pc[p] = "unborn"
    /\ pc' = [pc EXCEPT ![p] = "idle"]
    /\ sock' = [sock EXCEPT ![p] = "open"]
    /\ piggyBackData' = [piggyBackData EXCEPT ![p] = NoPiggyBack]
    /\ UNCHANGED << cfgVars, connectionId, lockVars,
                    NextMsgId, ops, op, ret, inCall, toSendId, recvVars,
                    stream, writes, calls, shutdowns, ports >>

\* MessagingPort::MessagingPort: psock( new Socket ), piggyBackData( 0 ),
\* ports.insert(this)
Construct(p) ==
    /\ pc[p] = "unborn"
    /\ mutex = "free"
    /\ pc' = [pc EXCEPT ![p] = "idle"]
    /\ sock' = [sock EXCEPT ![p] = "open"]
    /\ piggyBackData' = [piggyBackData EXCEPT ![p] = NoPiggyBack]
    /\ ports' = ports \cup {p}
    /\ UNCHANGED << cfgVars, connectionId, lockVars,
                    NextMsgId, ops, op, ret, inCall, toSendId, recvVars,
                    stream, writes, calls, shutdowns >>

\* a destructor that closes the transport before it deletes piggyBackData
DestroyFlush_ClosesFirst(p) ==
    /\ pc[p] = "idle"
    /\ ops < MaxOps
    /\ ops' = ops + 1
    /\ sock' = [sock EXCEPT ![p] = "closed"]
    /\ LET e == IF piggyBackData[p].alloc
                THEN PBFlush(piggyBackData[p].data, FALSE)
                ELSE Outcome("none", << >>, << >>)
       IN  /\ stream' = StreamAfter(p, e.sent)
           /\ writes' = WritesAfter(p, e.sent)
    /\ piggyBackData' = [piggyBackData EXCEPT ![p] = NoPiggyBack]
    /\ pc' = [pc EXCEPT ![p] = "dtor_flushed"]
    /\ op' = [op EXCEPT ![p] = "destroy"]
    /\ UNCHANGED << cfgVars, connectionId, lockVars,
                    NextMsgId, ret, inCall, toSendId, recvVars,
                    ports, calls, shutdowns >>

\* a destructor without DESTRUCTOR_GUARD: what the flush throws leaves the
\* destructor before shutdown() and ports.erase(this)
DestroyFlush_Propagates(p) ==
    /\ pc[p] = "idle"
    /\ ops < MaxOps
    /\ ops' = ops + 1
    /\ \E e \in { IF piggyBackData[p].alloc
                  THEN PBFlush(piggyBackData[p].data, sock[p] = "open")
                  ELSE Outcome("none", << >>, << >>) } :
          /\ stream' = StreamAfter(p, e.sent)
          /\ writes' = WritesAfter(p, e.sent)
          /\ pc' = [pc EXCEPT ![p] =
                       IF e.threw = "none" THEN "dtor_flushed" ELSE "dtor_failed"]
          /\ ret' = [ret EXCEPT ![p] = IF e.threw = "none" THEN @ ELSE e.threw]
    /\ piggyBackData' = [piggyBackData EXCEPT ![p] = NoPiggyBack]
    /\ op' = [op EXCEPT ![p] = "destroy"]
    /\ UNCHANGED << cfgVars, connectionId, lockVars, NextMsgId, inCall, toSendId,
                    recvVars, sock, ports, calls, shutdowns >>

\* ~MessagingPort, first statement: if ( piggyBackData ) delete( piggyBackData ),
\* whose ~PiggyBackData flushes inside DESTRUCTOR_GUARD
DestroyFlush(p) ==
    /\ pc[p] = "idle"
    /\ ops < MaxOps
    /\ ops' = ops + 1
    /\ LET e == IF piggyBackData[p].alloc
                THEN PBFlush(piggyBackData[p].data, sock[p] = "open")
                ELSE Outcome("none", << >>, << >>)
       IN  /\ stream' = StreamAfter(p, e.sent)
           /\ writes' = WritesAfter(p, e.sent)
    /\ piggyBackData' = [piggyBackData EXCEPT ![p] = NoPiggyBack]
    /\ pc' = [pc EXCEPT ![p] = "dtor_flushed"]
    /\ op' = [op EXCEPT ![p] = "destroy"]
    /\ UNCHANGED << cfgVars, connectionId, lockVars,
                    NextMsgId, ret, inCall, toSendId, recvVars, sock,
                    ports, calls, shutdowns >>

\* ~MessagingPort, second statement: shutdown()
DestroyShutdown(p) ==
    /\ pc[p] = "dtor_flushed"
    /\ pc' = [pc EXCEPT ![p] = "dtor_closed"]
    /\ sock' = [sock EXCEPT ![p] = "closed"]
    /\ shutdowns' = [shutdowns EXCEPT ![p] = Append(@, "destructor")]
    /\ UNCHANGED << cfgVars, connectionId, lockVars,
                    NextMsgId, ops, op, ret, inCall, toSendId, recvVars,
                    stream, writes, piggyBackData, ports, calls >>

\* an erase that does not take the registry mutex
DestroyErase_NoLock(p) ==
    /\ pc[p] = "dtor_closed"
    /\ pc' = [pc EXCEPT ![p] = "destroyed"]
    /\ ports' = ports \ {p}
    /\ ret' = [ret EXCEPT ![p] = "void"]
    /\ UNCHANGED << cfgVars, connectionId, lockVars,
                    NextMsgId, ops, op, inCall, toSendId, recvVars,
                    sock, stream, writes, piggyBackData, calls, shutdowns >>

\* ~MessagingPort, third statement: ports.erase(this), which waits for the
\* registry mutex
DestroyErase(p) ==
    /\ pc[p] = "dtor_closed"
    /\ mutex = "free"
    /\ pc' = [pc EXCEPT ![p] = "destroyed"]
    /\ ports' = ports \ {p}
    /\ ret' = [ret EXCEPT ![p] = "void"]
    /\ UNCHANGED << cfgVars, connectionId, lockVars,
                    NextMsgId, ops, op, inCall, toSendId, recvVars,
                    sock, stream, writes, piggyBackData, calls, shutdowns >>

\* a closeAll that skips the handles whose tag equals the mask
CloseAll_SkipsOnEqual(skip_mask) ==
    /\ ops < MaxOps
    /\ ops' = ops + 1
    /\ sock' = [p \in Handles |->
                  IF p \in ports /\ tag[p] # skip_mask THEN "closed" ELSE sock[p]]
    /\ shutdowns' = [p \in Handles |->
                  IF p \in ports /\ tag[p] # skip_mask
                  THEN Append(shutdowns[p], "closeAll") ELSE shutdowns[p]]
    /\ UNCHANGED << cfgVars, connectionId, lockVars,
                    NextMsgId, flowVars, recvVars, stream, writes,
                    piggyBackData, ports, calls >>

\* Ports::closeAll(skip_mask), under the registry mutex: the handles i of
\* ports with (*i)->tag & skip_mask zero are shut down
CloseAll(skip_mask) ==
    /\ mutex = "free"
    /\ ops < MaxOps
    /\ ops' = ops + 1
    /\ sock' = [p \in Handles |->
                  IF p \in ports /\ And32(tag[p], skip_mask) = 0
                  THEN "closed" ELSE sock[p]]
    /\ shutdowns' = [p \in Handles |->
                  IF p \in ports /\ And32(tag[p], skip_mask) = 0
                  THEN Append(shutdowns[p], "closeAll") ELSE shutdowns[p]]
    /\ UNCHANGED << cfgVars, connectionId, lockVars,
                    NextMsgId, flowVars, recvVars, stream, writes,
                    piggyBackData, ports, calls >>

\* MessagingPort::MessagingPort, the member initialisers: psock( new Socket )
ConstructSocket(p) ==
    /\ pc[p] = "unborn"
    /\ pc' = [pc EXCEPT ![p] = "ctor"]
    /\ sock' = [sock EXCEPT ![p] = "open"]
    /\ piggyBackData' = [piggyBackData EXCEPT ![p] = NoPiggyBack]
    /\ UNCHANGED << cfgVars, connectionId, lockVars, NextMsgId, ops, op, ret,
                    inCall, toSendId, recvVars, stream, writes, ports, calls,
                    shutdowns >>

\* MessagingPort::MessagingPort, the body: ports.insert(this), which waits
\* for the registry mutex
ConstructInsert(p) ==
    /\ pc[p] = "ctor"
    /\ mutex = "free"
    /\ pc' = [pc EXCEPT ![p] = "idle"]
    /\ ports' = ports \cup {p}
    /\ UNCHANGED << cfgVars, connectionId, lockVars, NextMsgId, ops, op, ret,
                    inCall, toSendId, recvVars, sock, stream, writes,
                    piggyBackData, calls, shutdowns >>

\* where the iterator of closeAll goes next: an element of the set it has
\* not passed (the set is ordered by address, which is arbitrary), or
\* ports.end(), written 0
IteratorNext(seen) == IF ports \ seen = {} THEN {0} ELSE ports \ seen

\* a flow calls closeAllSockets(skip_mask) and comes to the lock_guard
CloseAllBegin(c, skip_mask) ==
    /\ closeAllFlow[c].pc = "idle"
    /\ ops < MaxOps
    /\ ops' = ops + 1
    /\ closeAllFlow' = [closeAllFlow EXCEPT ![c] =
          [pc |-> "lock", skip_mask |-> skip_mask, i |-> 0, seen |-> {},
           touched |-> {}]]
    /\ UNCHANGED << cfgVars, connectionId, mutex, NextMsgId, flowVars, recvVars,
                    sock, stream, writes, piggyBackData, ports, calls, shutdowns >>

\* Ports::closeAll: boost::lock_guard<boost::mutex> bl(m), i = ports.begin()
CloseAllLock(c) ==
    /\ closeAllFlow[c].pc = "lock"
    /\ mutex = "free"
    /\ mutex' = c
    /\ \E n \in IteratorNext({}) :
          closeAllFlow' = [closeAllFlow EXCEPT ![c].pc = "loop", ![c].i = n]
    /\ UNCHANGED << cfgVars, connectionId, NextMsgId, ops, flowVars, recvVars,
                    sock, stream, writes, piggyBackData, ports, calls, shutdowns >>

\* a closeAll whose shutdown() takes the registry mutex
CloseAllVisit_ShutdownLocks(c) ==
    /\ closeAllFlow[c].pc = "loop"
    /\ closeAllFlow[c].i # 0
    /\ \E p \in { closeAllFlow[c].i } :
       \E skip \in { And32(tag[p], closeAllFlow[c].skip_mask) # 0 } :
          /\ skip \/ mutex = "free"
          /\ sock' = [sock EXCEPT ![p] = IF skip THEN @ ELSE "closed"]
          /\ shutdowns' = [shutdowns EXCEPT ![p] =
                             IF skip THEN @ ELSE Append(@, "closeAll")]
          /\ \E n \in IteratorNext(closeAllFlow[c].seen \cup {p}) :
                closeAllFlow' = [closeAllFlow EXCEPT
                    ![c].i = n,
                    ![c].seen = @ \cup {p},
                    ![c].touched = @ \cup { << p, pc[p] >> }]
    /\ UNCHANGED << cfgVars, connectionId, mutex, NextMsgId, ops, flowVars,
                    recvVars, stream, writes, piggyBackData, ports, calls >>

\* a closeAll that takes the handles it shuts down out of the registry
CloseAllVisit_ErasesClosed(c) ==
    /\ closeAllFlow[c].pc = "loop"
    /\ closeAllFlow[c].i # 0
    /\ \E p \in { closeAllFlow[c].i } :
       \E skip \in { And32(tag[p], closeAllFlow[c].skip_mask) # 0 } :
          /\ sock' = [sock EXCEPT ![p] = IF skip THEN @ ELSE "closed"]
          /\ shutdowns' = [shutdowns EXCEPT ![p] =
                             IF skip THEN @ ELSE Append(@, "closeAll")]
          /\ ports' = IF skip THEN ports ELSE ports \ {p}
          /\ \E n \in IteratorNext(closeAllFlow[c].seen \cup {p}) :
                closeAllFlow' = [closeAllFlow EXCEPT
                    ![c].i = n,
                    ![c].seen = @ \cup {p},
                    ![c].touched = @ \cup { << p, pc[p] >> }]
    /\ UNCHANGED << cfgVars, connectionId, mutex, NextMsgId, ops, flowVars,
                    recvVars, stream, writes, piggyBackData, calls >>

\* Ports::closeAll, one turn of the loop: if( (*i)->tag & skip_mask )
\* continue; (*i)->shutdown(); i++
CloseAllVisit(c) ==
    /\ closeAllFlow[c].pc = "loop"
    /\ closeAllFlow[c].i # 0
    /\ \E p \in { closeAllFlow[c].i } :
       \E skip \in { And32(tag[p], closeAllFlow[c].skip_mask) # 0 } :
          /\ sock' = [sock EXCEPT ![p] = IF skip THEN @ ELSE "closed"]
          /\ shutdowns' = [shutdowns EXCEPT ![p] =
                             IF skip THEN @ ELSE Append(@, "closeAll")]
          /\ \E n \in IteratorNext(closeAllFlow[c].seen \cup {p}) :
                closeAllFlow' = [closeAllFlow EXCEPT
                    ![c].i = n,
                    ![c].seen = @ \cup {p},
                    ![c].touched = @ \cup { << p, pc[p] >> }]
    /\ UNCHANGED << cfgVars, connectionId, mutex, NextMsgId, ops, flowVars,
                    recvVars, stream, writes, piggyBackData, ports, calls >>

\* Ports::closeAll: i == ports.end(), the lock_guard releases the mutex
CloseAllUnlock(c) ==
    /\ closeAllFlow[c].pc = "loop"
    /\ closeAllFlow[c].i = 0
    /\ mutex' = "free"
    /\ closeAllFlow' = [closeAllFlow EXCEPT ![c].pc = "idle"]
    /\ UNCHANGED << cfgVars, connectionId, NextMsgId, ops, flowVars, recvVars,
                    sock, stream, writes, piggyBackData, ports, calls, shutdowns >>

\* a setConnectionId that stores the id whatever the handle holds
SetConnectionId_Overwrites(p, id) ==
    /\ pc[p] = "idle"
    /\ ops < MaxOps
    /\ ops' = ops + 1
    /\ connectionId' = [connectionId EXCEPT ![p] = id]
    /\ ret' = [ret EXCEPT ![p] = "void"]
    /\ op' = [op EXCEPT ![p] = "setConnectionId"]
    /\ UNCHANGED << cfgVars, lockVars, NextMsgId, pc, inCall, toSendId, recvVars,
                    sock, stream, writes, piggyBackData, ports, calls, shutdowns >>

\* void AbstractMessagingPort::setConnectionId( long long connectionId ):
\* verify( _connectionId == 0 ), then the store
SetConnectionId(p, id) ==
    /\ pc[p] = "idle"
    /\ ops < MaxOps
    /\ ops' = ops + 1
    /\ IF connectionId[p] = 0
       THEN /\ connectionId' = [connectionId EXCEPT ![p] = id]
            /\ ret' = [ret EXCEPT ![p] = "void"]
       ELSE /\ connectionId' = connectionId
            /\ ret' = [ret EXCEPT ![p] = "verify"]
    /\ op' = [op EXCEPT ![p] = "setConnectionId"]
    /\ UNCHANGED << cfgVars, lockVars, NextMsgId, pc, inCall, toSendId, recvVars,
                    sock, stream, writes, piggyBackData, ports, calls, shutdowns >>

\* ------------------------------------------------------------------------
\* The remote side and the callers
\* ------------------------------------------------------------------------

\* What the remote application writes raw on its end of the connection:
\* a header [len, responseTo] and the payload bytes that follow it.
RawInput(len, responseTo, payload) ==
    [len |-> len, responseTo |-> responseTo, payload |-> payload]

\* probes, an HTTP GET, malformed lengths, whole messages, and a header
\* of the largest length whose payload has not arrived
RawInputs ==
    { RawInput(EndianProbe, 0, 0),
      RawInput(HTTPMagic, 0, 0),
      RawInput(HeaderLen - 1, 7, 0),
      RawInput(-2, 0, 0),
      RawInput(MaxMessageSizeBytes + 1, 0, 0),
      RawInput(HeaderLen + 2, 0, 2),
      RawInput(HeaderLen, 7, 0),
      RawInput(MaxMessageSizeBytes, -1, 0) }

RawBytes(r) ==
    RCat(RFromBytes(HeaderBytes(r.len, 99, r.responseTo, OpCode)),
         IF r.payload > 0 THEN << Run(187, r.payload) >> ELSE << >>)

\* the bytes of every raw input
RawInputBytes == [r \in RawInputs |-> RawBytes(r)]

\* the remote application writes raw bytes towards handle p
RawWrite(p, r) ==
    /\ ops < MaxOps
    /\ ops' = ops + 1
    /\ stream' = [stream EXCEPT ![p] = RCat(@, RawInputBytes[r])]
    /\ UNCHANGED << cfgVars, connectionId, lockVars,
                    NextMsgId, flowVars, recvVars, sock, writes,
                    piggyBackData, ports, calls, shutdowns >>

\* the messages the callers pass to say(), piggyBack() and call()
SendLens == {HeaderLen, HeaderLen + 2}
ResponseTos == {0, 1}
ToSend(len) == MakeMessage(len, 0, 0, OpCode, 170)

\* Handle 1 is the handle under test; handle 2 is the handle at the other
\* end of the connection.

\* Spec: handle 1 receives what a remote application writes raw.
Next ==
    \/ \E r \in RawInputs : RawWrite(1, r)
    \/ \E fresh \in BOOLEAN : RecvBegin(1, fresh)
    \/ RecvHeader(1)
    \/ RecvPayload(1)
    \/ RecvFail(1)
    \/ Shutdown(1)

Spec == Init /\ [][Next]_vars

\* SpecPeer: handle 2 transmits with say() and piggyBack(); handle 1
\* receives and calls.
NextPeer ==
    \/ RawWrite(1, RawInput(EndianProbe, 0, 0))
    \/ \E len \in SendLens, r \in ResponseTos : Say(2, ToSend(len), r)
    \/ PiggyBack(2, ToSend(HeaderLen + 2), 0)
    \/ CallBegin(1, ToSend(HeaderLen + 2), TRUE)
    \/ RecvBegin(1, TRUE)
    \/ RecvHeader(1)
    \/ RecvPayload(1)
    \/ RecvFail(1)
    \/ Shutdown(1)

SpecPeer == Init /\ [][NextPeer]_vars

\* the messages and responseTo values of the senders: a small message, one
\* that fills the piggyback buffer to its end together with the small one,
\* and one above the piggyback threshold
SendArgs ==
    { << HeaderLen + 2, 0 >>, << PiggyBackSize - (HeaderLen + 2), 5 >>,
      << PiggyBackSize + 1, 5 >> }

\* SpecSend: handle 1 says, piggybacks, receives and replies, and is
\* destroyed; handle 2 says concurrently.
NextSend ==
    \/ \E a \in SendArgs : Say(1, ToSend(a[1]), a[2])
    \/ \E a \in SendArgs : PiggyBack(1, ToSend(a[1]), a[2])
    \/ Say(2, ToSend(HeaderLen), 0)
    \/ Reply(1, ToSend(HeaderLen + 2))
    \/ ReplyTo(1, ToSend(HeaderLen + 2), 5)
    \/ \E r \in { RawInput(HeaderLen + 2, 0, 2), RawInput(-2, 0, 0),
                   RawInput(HTTPMagic, 0, 0) } : RawWrite(1, r)
    \/ RecvBegin(1, FALSE)
    \/ RecvHeader(1)
    \/ RecvPayload(1)
    \/ RecvFail(1)
    \/ Shutdown(1)
    \/ Destroy(1)

\* the senders do not depend on the TLS options or on the byte order, and
\* the headers received here have responseTo 0: the build without TLS
\* support on a little-endian host
InitSend ==
    /\ \E id \in FirstIds : InitAt(id)
    /\ ~MONGO_SSL
    /\ littleEndianHost

SpecSend == InitSend /\ [][NextSend]_vars

\* ------------------------------------------------------------------------
\* Vocabulary of the properties
\* ------------------------------------------------------------------------

\* the step in which recv() on handle p gets a header from the transport
ReadsHeader(p) == pc[p] = "recv_hdr" /\ bytesIn'[p] = bytesIn[p] + HeaderLen

\* the 16 bytes that step reads
NextHeader(p) == RToBytes(RTake(Unread(p), HeaderLen))

\* the step in which the payload read of recv() on handle p returns
ReadsPayload(p) == pc[p] = "recv_body" /\ sock[p] = "open" /\ pc'[p] # pc[p]

Sentinel(len) == len = -1 \/ len = 542393671

OutOfBounds(len) == len < 16 \/ len > MaxMessageSizeBytes

HandshakeErrors == {"uassert17133", "uassert17132", "uassert17189"}

\* recv() on p ends in this step without a Message: it returns false or a
\* handshake assertion leaves it, the output Message keeps what it held, no
\* buffer is allocated and nothing but the header has been read
FailsWithoutMessage(p) ==
    /\ pc'[p] = "idle"
    /\ ret'[p] \in {"false"} \cup HandshakeErrors
    /\ msg'[p] = msg[p]
    /\ nMalloc'[p] = nMalloc[p]
    /\ rbuf'[p] = rbuf[p]
    /\ bytesIn'[p] = bytesIn[p] + 16

\* the header is consumed as a TLS client hello by a TLS-enabled build
TakenAsTlsHello(p, h) ==
    /\ awaitingHandshake[p]
    /\ getResponseTo(h) \notin {0, -1}
    /\ MONGO_SSL
    /\ SSLEnabled

\* SpecLen: the remote side has written one whole message, of any of the
\* lengths of BufLens, and handle 1 receives it or is shut down under it.
BufLens ==
    (HeaderLen..120) \cup
    { RecvBufGranule - 1, RecvBufGranule, RecvBufGranule + 1,
      2 * RecvBufGranule, 65535, 65536, 65537,
      MaxMessageSizeBytes - RecvBufGranule, MaxMessageSizeBytes - 1,
      MaxMessageSizeBytes }

NextLen ==
    \/ \E fresh \in BOOLEAN : RecvBegin(1, fresh)
    \/ RecvHeader(1)
    \/ RecvPayload(1)
    \/ RecvFail(1)
    \/ Shutdown(1)

InitLen ==
    /\ \E len \in BufLens :
          InitState(1, [p \in Handles |-> DefaultTag], Handles,
                    RawBytes(RawInput(len, 0, len - HeaderLen)))
    /\ ~MONGO_SSL
    /\ littleEndianHost

SpecLen == InitLen /\ [][NextLen]_vars

\* SpecRegistry: both handles live in the registry of one process. Handle 1
\* piggybacks and receives; handle 2 is constructed while handle 1 runs;
\* any flow shuts a handle down or calls closeAll; each handle is destroyed
\* by its owner, statement by statement.
TagValues == {0, 1, 3}
SkipMasks == {0, 1, 2}

NextRegistry ==
    \/ Construct(2)
    \/ PiggyBack(1, ToSend(HeaderLen + 2), 0)
    \/ \E r \in { RawInput(HeaderLen + 2, 0, 2),
                   RawInput(MaxMessageSizeBytes, -1, 0) } : RawWrite(1, r)
    \/ \E fresh \in BOOLEAN : RecvBegin(1, fresh)
    \/ RecvHeader(1)
    \/ RecvPayload(1)
    \/ RecvFail(1)
    \/ \E p \in Handles : Shutdown(p)
    \/ \E skip_mask \in SkipMasks : CloseAll(skip_mask)
    \/ \E p \in Handles : DestroyFlush(p)
    \/ \E p \in Handles : DestroyShutdown(p)
    \/ \E p \in Handles : DestroyErase(p)

InitRegistry ==
    /\ \E tags \in [Handles -> TagValues] : InitState(1, tags, {1}, << >>)
    /\ ~MONGO_SSL
    /\ littleEndianHost

SpecRegistry == InitRegistry /\ [][NextRegistry]_vars

\* a flow blocked in a transport read of a closed transport is woken with
\* the error
SpecRegistryLive == SpecRegistry /\ WF_vars(RecvFail(1))

\* SpecPorts: the registry under its mutex. Handle 1 piggybacks; handle 2
\* is constructed while the other flows run; two flows call closeAll, which
\* walks the registry turn by turn under the mutex; each handle is
\* destroyed by its owner, statement by statement.
PortsTags == { << 1, 0 >>, << 0, 3 >> }
PortsMasks == {0, 1}

NextPorts ==
    \/ ConstructSocket(2)
    \/ ConstructInsert(2)
    \/ PiggyBack(1, ToSend(HeaderLen + 2), 0)
    \/ \E p \in Handles : DestroyFlush(p)
    \/ \E p \in Handles : DestroyShutdown(p)
    \/ \E p \in Handles : DestroyErase(p)
    \/ \E c \in Closers, skip_mask \in PortsMasks : CloseAllBegin(c, skip_mask)
    \/ \E c \in Closers : CloseAllLock(c)
    \/ \E c \in Closers : CloseAllVisit(c)
    \/ \E c \in Closers : CloseAllUnlock(c)

InitPorts ==
    /\ \E tags \in PortsTags : InitState(1, tags, {1}, << >>)
    /\ ~MONGO_SSL
    /\ littleEndianHost

SpecPorts == InitPorts /\ [][NextPorts]_vars

\* every flow keeps running: a flow inside closeAll, a constructor or a
\* destructor takes its next step, and a flow waiting for the mutex gets it
\* once the mutex is free
SpecPortsLive ==
    /\ SpecPorts
    /\ \A c \in Closers :
          WF_vars(CloseAllLock(c)) /\ WF_vars(CloseAllVisit(c))
          /\ WF_vars(CloseAllUnlock(c))
    /\ \A p \in Handles :
          WF_vars(ConstructInsert(p)) /\ WF_vars(DestroyShutdown(p))
          /\ WF_vars(DestroyErase(p))

\* SpecConnection: the acceptor gives the handles their connection ids,
\* handle 2 once it is constructed; handles are shut down and destroyed.
ConnectionIds == {0, 1, 2, -1}

NextConnection ==
    \/ \E p \in Handles, id \in ConnectionIds : SetConnectionId(p, id)
    \/ Construct(2)
    \/ \E p \in Handles : Shutdown(p)
    \/ \E p \in Handles : Destroy(p)

InitConnection ==
    /\ InitState(1, [p \in Handles |-> DefaultTag], {1}, << >>)
    /\ ~MONGO_SSL
    /\ littleEndianHost

SpecConnection == InitConnection /\ [][NextConnection]_vars

\* ------------------------------------------------------------------------
\* C1
\* ------------------------------------------------------------------------

\* C1 (as claimed): every header read by recv() whose totalLength is below
\* 16 or above MaxMessageSizeBytes (negative values included) and is no
\* sentinel makes recv() report failure and deliver no Message: no buffer
\* is allocated, no payload byte is read, the output Message is untouched.
C1_EveryBadLengthFails ==
    [][\A p \in Handles :
          (ReadsHeader(p)
             /\ OutOfBounds(getMessageLength(NextHeader(p)))
             /\ ~Sentinel(getMessageLength(NextHeader(p))))
          => FailsWithoutMessage(p)]_vars

\* C1 (amended): the same, for every such header that is not consumed as a
\* TLS client hello (first header of the connection, responseTo not in
\* {0, -1}, build with TLS support and TLS enabled).
C1_BadLengthFails ==
    [][\A p \in Handles :
          (ReadsHeader(p)
             /\ OutOfBounds(getMessageLength(NextHeader(p)))
             /\ ~Sentinel(getMessageLength(NextHeader(p)))
             /\ ~TakenAsTlsHello(p, NextHeader(p)))
          => FailsWithoutMessage(p)]_vars

\* a recv() that has returned false on a header with a negative length,
\* having read 16 bytes and allocated nothing
C1_Witness ==
    \E p \in Handles :
        /\ pc[p] = "idle" /\ op[p] = "recv" /\ ret[p] = "false"
        /\ header[p] # << >>
        /\ getMessageLength(header[p]) = -2
        /\ bytesIn[p] = 16 /\ nMalloc[p] = 0 /\ msg[p] = EmptyMessage

\* ------------------------------------------------------------------------
\* C2
\* ------------------------------------------------------------------------

\* the length of the frame that starts at offset off of byte string s: a
\* probe is a bare header, a message is as long as its header says
FrameLenAt(s, off) ==
    LET len == getMessageLength(RToBytes(RTake(RDrop(s, off), HeaderLen)))
    IN  IF len = -1 THEN HeaderLen ELSE len

\* offset target of s is the first byte of a frame
RECURSIVE IsFrameStart(_, _, _)
IsFrameStart(s, off, target) ==
    IF off = target THEN TRUE
    ELSE IF off > target \/ RLen(s) - off < HeaderLen THEN FALSE
    ELSE IF FrameLenAt(s, off) < HeaderLen THEN FALSE
    ELSE IsFrameStart(s, off + FrameLenAt(s, off), target)

\* the messages of one transport write
RECURSIVE MessagesIn(_)
MessagesIn(block) ==
    IF RLen(block) < HeaderLen THEN {}
    ELSE LET len == FrameLenAt(block, 0)
         IN  IF len < HeaderLen \/ len > RLen(block) THEN {}
             ELSE {RTake(block, len)} \cup MessagesIn(RDrop(block, len))

\* the messages handle q has transmitted
Transmitted(q) == UNION { MessagesIn(writes[q][i]) : i \in 1..Len(writes[q]) }

\* at offset off of its stream, handle p has a whole message that its
\* peer transmitted, with a length within the bounds
MessageAt(p, off) ==
    /\ off >= 0
    /\ RLen(stream[p]) - off >= HeaderLen
    /\ IsFrameStart(stream[p], 0, off)
    /\ FrameLenAt(stream[p], off) >= 16
    /\ FrameLenAt(stream[p], off) <= MaxMessageSizeBytes
    /\ RLen(stream[p]) - off >= FrameLenAt(stream[p], off)
    /\ RTake(RDrop(stream[p], off), FrameLenAt(stream[p], off)) \in Transmitted(Peer(p))

TheMessageAt(p, off) == RTake(RDrop(stream[p], off), FrameLenAt(stream[p], off))

\* the payload read of a recv() that began at a transmitted message ends
\* with that message delivered and exactly its bytes consumed
DeliversTransmitted(p) ==
    (ReadsPayload(p) /\ MessageAt(p, bytesIn[p] - 16))
    => LET m == TheMessageAt(p, bytesIn[p] - 16)
       IN  /\ msg'[p] = m
           /\ getMessageLength(MsgHeader(msg'[p])) = getMessageLength(MsgHeader(m))
           /\ getId(MsgHeader(msg'[p])) = getId(MsgHeader(m))
           /\ getResponseTo(MsgHeader(msg'[p])) = getResponseTo(MsgHeader(m))
           /\ getOpCode(MsgHeader(msg'[p])) = getOpCode(MsgHeader(m))
           /\ MsgPayload(msg'[p]) = MsgPayload(m)
           /\ bytesIn'[p] = bytesIn[p] - 16 + MsgLen(m)
           /\ ret'[p] = IF inCall[p] /\ getResponseTo(MsgHeader(m)) # toSendId[p]
                        THEN "verify" ELSE "true"

\* the header is let through the handshake detection of recv()
PastHandshakeDetection(p, h) ==
    \/ ~awaitingHandshake[p]
    \/ /\ getResponseTo(h) \in {0, -1}
       /\ ~(MONGO_SSL /\ SSLMode = "kSSLRequired")

\* C2 (as claimed): over a lossless transport, every message with
\* 16 <= totalLength <= MaxMessageSizeBytes that a handle transmits with
\* say() is delivered by a recv() on the peer handle, with identical header
\* fields and payload, exactly totalLength bytes having been consumed.
C2_EveryMessageRoundTrips ==
    [][\A p \in Handles :
          /\ (ReadsHeader(p) /\ MessageAt(p, bytesIn[p]))
             => (pc'[p] = "recv_body" /\ header'[p] = MsgHeader(TheMessageAt(p, bytesIn[p])))
          /\ DeliversTransmitted(p)]_vars

\* C2 (amended): the same, for every such message that is let through the
\* handshake detection: the receiving handle has received its handshake
\* (a probe, a TLS handshake or an earlier well-formed header), or the
\* message's responseTo is 0 or -1 and TLS is not required.
C2_RoundTrip ==
    [][\A p \in Handles :
          /\ (ReadsHeader(p) /\ MessageAt(p, bytesIn[p])
                /\ PastHandshakeDetection(p, NextHeader(p)))
             => (pc'[p] = "recv_body" /\ header'[p] = MsgHeader(TheMessageAt(p, bytesIn[p])))
          /\ DeliversTransmitted(p)]_vars

\* handle 1 has received, with its payload, the second message of its peer
C2_Witness ==
    /\ pc[1] = "idle" /\ op[1] = "recv" /\ ret[1] = "true"
    /\ msg[1] \in Transmitted(2)
    /\ MsgLen(msg[1]) = 18
    /\ getResponseTo(MsgHeader(msg[1])) = 1
    /\ bytesIn[1] = 34

\* ------------------------------------------------------------------------
\* C3
\* ------------------------------------------------------------------------

\* the step in which call() on handle p ends
CallEnds(p) == inCall[p] /\ pc[p] # "idle" /\ pc'[p] = "idle"

\* a step of handle p's own flow
StepOf(p) == pc'[p] # pc[p] \/ bytesIn'[p] # bytesIn[p]

\* the transport writes p makes in this step
NewWrites(p) == { writes'[p][i] : i \in (Len(writes[p]) + 1)..Len(writes'[p]) }

\* C3: call(toSend, response) returns true only with a response whose
\* responseTo is the id that the say() of this call stamped on toSend; it
\* returns false exactly when the inner recv() ends without a Message and
\* without an assertion; and between its say() and its return it draws no
\* id and transmits no message again.
C3_CallCorrelation ==
    [][\A p \in Handles :
          /\ (inCall[p] /\ pc[p] # "idle" /\ StepOf(p))
             => /\ toSendId'[p] = toSendId[p]
                /\ NextMsgId' = NextMsgId
                /\ \A w \in NewWrites(p) : MessagesIn(w) = {}
          /\ CallEnds(p)
             => /\ (ret'[p] = "true")
                   => /\ msg'[p] # EmptyMessage
                      /\ getResponseTo(MsgHeader(msg'[p])) = toSendId[p]
                      /\ \E i \in 1..Len(writes[p]) :
                            \E m \in MessagesIn(writes[p][i]) :
                                getId(MsgHeader(m)) = toSendId[p]
                /\ (ret'[p] = "false")
                   <=> (~ReadsPayload(p) /\ ret'[p] \notin HandshakeErrors \cup {"verify"})]_vars

\* a call() that has returned true with the reply to its own request
C3_Witness ==
    \E p \in Handles :
        /\ pc[p] = "idle" /\ op[p] = "call" /\ ret[p] = "true"
        /\ msg[p] # EmptyMessage
        /\ getResponseTo(MsgHeader(msg[p])) = toSendId[p]
        /\ getId(MsgHeader(msg[p])) # toSendId[p]

\* ------------------------------------------------------------------------
\* C4
\* ------------------------------------------------------------------------

\* C4: in call(), a received Message whose responseTo differs from
\* toSend's id raises the correlation assertion in that very step: it is
\* not returned as the reply and the loop does not go on to another recv().
C4_MismatchFailsFast ==
    [][\A p \in Handles :
          (inCall[p] /\ ReadsPayload(p) /\ getResponseTo(header[p]) # toSendId[p])
          => (ret'[p] = "verify" /\ pc'[p] = "idle")]_vars

\* a call() left by the correlation assertion, the mismatched reply in hand
C4_Witness ==
    \E p \in Handles :
        /\ pc[p] = "idle" /\ op[p] = "call" /\ ret[p] = "verify"
        /\ msg[p] # EmptyMessage
        /\ getResponseTo(MsgHeader(msg[p])) # toSendId[p]

\* ------------------------------------------------------------------------
\* C5
\* ------------------------------------------------------------------------

\* recv(m) on handle p has returned true with a Message
Delivered(p) ==
    pc[p] = "idle" /\ op[p] = "recv" /\ ret[p] = "true" /\ msg[p] # EmptyMessage

\* C5: when TLS is required, whatever headers the peer sends (probes
\* first or not), recv() delivers no Message on a connection on which no
\* TLS handshake has completed.
C5_NoSilentDowngrade ==
    \A p \in Handles :
        (MONGO_SSL /\ SSLMode = "kSSLRequired" /\ Delivered(p)) => secured[p]

\* ------------------------------------------------------------------------
\* C6
\* ------------------------------------------------------------------------

\* the step in which recv() on p reads the very first header of the
\* connection, and that header has no sentinel length
ReadsFirstHeader(p) ==
    /\ ReadsHeader(p)
    /\ bytesIn[p] = 0
    /\ ~Sentinel(getMessageLength(NextHeader(p)))

\* C6: a first header with a non-sentinel totalLength and responseTo not
\* in {0, -1} is taken as a TLS client hello: without TLS support, or with
\* TLS not enabled, recv() fails with a handshake assertion and no Message;
\* with TLS enabled the 16 header bytes go to the handshake of the
\* transport and, the handshake done, the handshake is marked received and
\* recv() reads a fresh header (a handshake that the transport fails ends
\* recv() like any transport failure). A first header with responseTo 0
\* or -1 is not passed to the handshake.
C6_FirstHeaderTlsDetection ==
    [][\A p \in Handles :
          /\ (ReadsFirstHeader(p) /\ getResponseTo(NextHeader(p)) \notin {0, -1})
             => /\ ~MONGO_SSL
                   => (ret'[p] = "uassert17133" /\ FailsWithoutMessage(p)
                         /\ sslFirstBytes'[p] = << >>)
                /\ (MONGO_SSL /\ ~SSLEnabled)
                   => (ret'[p] = "uassert17132" /\ FailsWithoutMessage(p)
                         /\ sslFirstBytes'[p] = << >>)
                /\ (MONGO_SSL /\ SSLEnabled)
                   => /\ sslFirstBytes'[p] = << NextHeader(p) >>
                      /\ nMalloc'[p] = nMalloc[p]
                      /\ \/ /\ secured'[p]
                            /\ ~awaitingHandshake'[p]
                            /\ pc'[p] = "recv_hdr"
                            /\ bytesIn'[p] = 16
                            /\ msg'[p] = msg[p] /\ ret'[p] = ret[p]
                         \/ /\ ~secured'[p]
                            /\ pc'[p] = "idle" /\ ret'[p] = "false"
                            /\ msg'[p] = EmptyMessage
          /\ (ReadsHeader(p) /\ bytesIn[p] = 0
                /\ getResponseTo(NextHeader(p)) \in {0, -1})
             => (sslFirstBytes'[p] = sslFirstBytes[p] /\ secured'[p] = secured[p])]_vars

\* the first 16 bytes have gone to the handshake, which is done, and recv()
\* waits for a fresh header
C6_Witness ==
    \E p \in Handles :
        /\ secured[p] /\ ~awaitingHandshake[p]
        /\ Len(sslFirstBytes[p]) = 1
        /\ sslFirstBytes[p][1] = RToBytes(RTake(stream[p], 16))
        /\ getResponseTo(sslFirstBytes[p][1]) = 7
        /\ pc[p] = "recv_hdr" /\ bytesIn[p] = 16

\* ------------------------------------------------------------------------
\* C7
\* ------------------------------------------------------------------------

\* C7: after a recv() on a handle has failed with a handshake assertion,
\* no later recv() on that handle delivers a Message and nothing more is
\* transmitted on it.
C7_HandshakeErrorIsFatal ==
    [][\A p \in Handles :
          ret[p] \in HandshakeErrors
          => /\ ret'[p] # "true"
             /\ msg'[p] = msg[p]
             /\ \A w \in NewWrites(p) : MessagesIn(w) = {}]_vars

\* ------------------------------------------------------------------------
\* C8
\* ------------------------------------------------------------------------

\* 0x10203040 as it lies in the memory of the host
EchoBytes == IF littleEndianHost THEN << 64, 48, 32, 16 >> ELSE << 16, 32, 48, 64 >>

\* recv() on p has read k headers so far, every one of them a probe
OnlyProbesRead(p, k) ==
    /\ bytesIn[p] = 16 * k
    /\ \A i \in 0..(k - 1) :
          getMessageLength(RToBytes(RTake(RDrop(stream[p], 16 * i), 16))) = -1

\* C8: on a header with totalLength -1, recv() writes exactly the 4 bytes
\* of 0x10203040 in host order, delivers nothing and reads a fresh header;
\* k probes in a row get exactly k echoes; recv() returns only on a header
\* that is no probe or on a transport failure.
C8_ProbeEcho ==
    /\ [][\A p \in Handles :
            /\ (ReadsHeader(p) /\ getMessageLength(NextHeader(p)) = -1)
               => /\ writes'[p] = Append(writes[p], RFromBytes(EchoBytes))
                  /\ RToBytes(stream'[Peer(p)]) = RToBytes(stream[Peer(p)]) \o EchoBytes
                  /\ pc'[p] = "recv_hdr"
                  /\ msg'[p] = msg[p] /\ ret'[p] = ret[p]
                  /\ nMalloc'[p] = nMalloc[p]
            /\ (pc[p] = "recv_hdr" /\ pc'[p] = "idle")
               => \/ ReadsHeader(p) /\ getMessageLength(NextHeader(p)) # -1
                  \/ sock[p] # "open"]_vars
    /\ [](\A p \in Handles : \A k \in 0..MaxOps :
            OnlyProbesRead(p, k)
            => (Len(writes[p]) = k
                  /\ \A i \in 1..k : RToBytes(writes[p][i]) = EchoBytes))

\* two probes read, two echoes written, recv() still waiting for a header
C8_Witness ==
    \E p \in Handles :
        /\ OnlyProbesRead(p, 2)
        /\ Len(writes[p]) = 2
        /\ RToBytes(writes[p][2]) = EchoBytes
        /\ pc[p] = "recv_hdr"
        /\ msg[p] = EmptyMessage

\* ------------------------------------------------------------------------
\* C9
\* ------------------------------------------------------------------------

\* the first index at which pat occurs in s, 0 if there is none
FirstIndexOf(s, pat) ==
    LET at == { i \in 1..(Len(s) - Len(pat) + 1) :
                   s[i] = pat[1] /\ SubSeq(s, i, i + Len(pat) - 1) = pat }
    IN  IF at = {} THEN 0 ELSE CHOOSE i \in at : \A j \in at : i <= j

\* what follows the first occurrence of pat in s
After(s, pat) == SubSeq(s, FirstIndexOf(s, pat) + Len(pat), Len(s))

\* s up to the first occurrence of pat
Before(s, pat) == SubSeq(s, 1, FirstIndexOf(s, pat) - 1)

\* the number a sequence of ASCII digits writes
RECURSIVE DecimalValue(_)
DecimalValue(d) ==
    IF d = << >> THEN 0
    ELSE 10 * DecimalValue(SubSeq(d, 1, Len(d) - 1)) + (d[Len(d)] - 48)

\* "HTTP/1.0 200 OK\r\n"
StatusLine == << 72, 84, 84, 80, 47, 49, 46, 48, 32, 50, 48, 48, 32, 79, 75, 13, 10 >>

\* "Content-Length: "
ContentLengthField ==
    << 67, 111, 110, 116, 101, 110, 116, 45, 76, 101, 110, 103, 116, 104, 58, 32 >>

\* w is an HTTP/1.0 200 OK response whose Content-Length is the length of
\* its body
WellFormedHttpOk(w) ==
    /\ SubSeq(w, 1, Len(StatusLine)) = StatusLine
    /\ FirstIndexOf(w, ContentLengthField) > 0
    /\ FirstIndexOf(w, << 13, 10, 13, 10 >>) > FirstIndexOf(w, ContentLengthField)
    /\ LET digits == Before(After(w, ContentLengthField), << 13, 10 >>)
       IN  /\ digits # << >>
           /\ \A i \in 1..Len(digits) : digits[i] \in 48..57
           /\ DecimalValue(digits) = Len(After(w, << 13, 10, 13, 10 >>))
    /\ Len(After(w, << 13, 10, 13, 10 >>)) > 0

\* C9: on a header with totalLength 542393671, recv() writes exactly one
\* HTTP/1.0 200 OK response whose Content-Length is the byte length of the
\* body after the blank line, then returns false with no Message and
\* without reading further.
C9_HttpMisdirect ==
    [][\A p \in Handles :
          (ReadsHeader(p) /\ getMessageLength(NextHeader(p)) = 542393671)
          => /\ Len(writes'[p]) = Len(writes[p]) + 1
             /\ SubSeq(writes'[p], 1, Len(writes[p])) = writes[p]
             /\ \A w \in { RToBytes(writes'[p][Len(writes'[p])]) } :
                   /\ WellFormedHttpOk(w)
                   /\ RToBytes(stream'[Peer(p)]) = RToBytes(stream[Peer(p)]) \o w
             /\ pc'[p] = "idle" /\ ret'[p] = "false"
             /\ msg'[p] = msg[p]
             /\ nMalloc'[p] = nMalloc[p]
             /\ bytesIn'[p] = bytesIn[p] + 16]_vars

\* recv() has returned false on an HTTP GET, the answer written
C9_Witness ==
    \E p \in Handles :
        /\ pc[p] = "idle" /\ op[p] = "recv" /\ ret[p] = "false"
        /\ header[p] # << >>
        /\ getMessageLength(header[p]) = 542393671
        /\ Len(writes[p]) = 1
        /\ \A w \in { RToBytes(writes[p][1]) } : WellFormedHttpOk(w)
        /\ bytesIn[p] = 16

\* ------------------------------------------------------------------------
\* C10
\* ------------------------------------------------------------------------

\* C10: once recv() has taken the HTTP path the connection is Closed: its
\* transport is closed (so that every later recv() on the handle fails).
C10_HttpPathCloses ==
    \A p \in Handles :
        (pc[p] = "idle" /\ op[p] = "recv" /\ ret[p] = "false"
           /\ header[p] # << >> /\ getMessageLength(header[p]) = 542393671)
        => sock[p] = "closed"

\* ------------------------------------------------------------------------
\* C11
\* ------------------------------------------------------------------------

\* the step in which recv() on p returns false
RecvReturnsFalse(p) ==
    /\ pc[p] \in {"recv_hdr", "recv_body"}
    /\ pc'[p] = "idle"
    /\ ret'[p] = "false"

\* the step in which recv() on p takes the HTTP path
TakesHttpPath(p) ==
    ReadsHeader(p) /\ getMessageLength(NextHeader(p)) = 542393671

\* C11: whenever recv(m) returns false because of a transport error or of
\* a length out of bounds, m is empty when recv returns, whatever it held.
C11_FailureEmptiesMessage ==
    [][\A p \in Handles :
          (RecvReturnsFalse(p) /\ ~TakesHttpPath(p))
          => msg'[p] = EmptyMessage]_vars

\* ------------------------------------------------------------------------
\* C12
\* ------------------------------------------------------------------------

\* C12: a recv() that fails (transport error, length out of bounds, HTTP
\* path) leaves the handle intact: no step of recv() closes the transport,
\* erases the handle from the registry or touches the piggyback buffer.
C12_FailingRecvLeavesHandle ==
    [][\A p \in Handles :
          (pc[p] \in {"recv_hdr", "recv_body"} /\ (StepOf(p) \/ RecvReturnsFalse(p)))
          => /\ sock'[p] = sock[p]
             /\ ports' = ports
             /\ piggyBackData'[p] = piggyBackData[p]]_vars

\* recv() has returned false on a length out of bounds; the handle is
\* registered, its transport open, its piggyback buffer still holds a message
C12_Witness ==
    \E p \in Handles :
        /\ pc[p] = "idle" /\ op[p] = "recv" /\ ret[p] = "false"
        /\ header[p] # << >> /\ getMessageLength(header[p]) = -2
        /\ p \in ports /\ sock[p] = "open"
        /\ piggyBackData[p].alloc /\ RLen(piggyBackData[p].data) = 18

\* ------------------------------------------------------------------------
\* C13
\* ------------------------------------------------------------------------

\* the messages of a byte string, in order
RECURSIVE FramesIn(_)
FramesIn(block) ==
    IF RLen(block) < HeaderLen THEN << >>
    ELSE LET len == FrameLenAt(block, 0)
         IN  IF len < HeaderLen \/ len > RLen(block) THEN << >>
             ELSE << RTake(block, len) >> \o FramesIn(RDrop(block, len))

\* the transport writes handle p makes in this step, in order
NewWritesSeq(p) == SubSeq(writes'[p], Len(writes[p]) + 1, Len(writes'[p]))

\* the bytes handle p hands to the transport in this step
Written(p) == RCatAll(<< >>, NewWritesSeq(p))

\* the step is a send operation of handle p entered under one of the names
Calls(p, names) ==
    /\ Len(calls'[p]) = Len(calls[p]) + 1
    /\ calls'[p][Len(calls'[p])].op \in names

\* the send operation of this step
ThisCall(p) == calls'[p][Len(calls'[p])]

\* C13: say(m, r) on a non-empty message gives m an id freshly drawn from
\* the global counter and responseTo r before any byte of m is written (no
\* byte of an unstamped m reaches the transport), and when it returns
\* normally all totalLength bytes of the stamped m have gone to the
\* transport.
C13_SayStampsThenSends ==
    [][\A p \in Handles :
          (Calls(p, {"say"}) /\ ThisCall(p).msg # EmptyMessage)
          => \A m \in { ThisCall(p).msg } :
             \A w \in { Written(p) } :
             \A fs \in { FramesIn(w) } :
                 /\ getId(MsgHeader(m)) = NextMsgId
                 /\ NextMsgId' # NextMsgId
                 /\ getResponseTo(MsgHeader(m)) = ThisCall(p).responseTo
                 /\ \A i \in 1..Len(fs) :
                       MsgPayload(fs[i]) = MsgPayload(m)
                       => \/ fs[i] = m
                          \/ \E j \in 1..Len(calls[p]) : calls[p][j].msg = fs[i]
                 /\ (ret'[p] = "void")
                    => /\ w # << >>
                       /\ RLen(w) >= MsgLen(m)
                       /\ RDrop(w, RLen(w) - MsgLen(m)) = m
                       /\ RLen(m) = getMessageLength(MsgHeader(m))
                       /\ RLen(piggyBackData'[p].data) = 0]_vars

\* say(m, 5) has returned normally, the stamped 1282 bytes written after the
\* message that was pending in the piggyback buffer
C13_Witness ==
    \E p \in Handles :
        /\ op[p] = "say" /\ ret[p] = "void"
        /\ Len(calls[p]) = 2
        /\ calls[p][1].op = "piggyBack"
        /\ calls[p][2].op = "say" /\ calls[p][2].responseTo = 5
        /\ Len(writes[p]) = 1
        /\ FramesIn(writes[p][1]) = << calls[p][1].msg, calls[p][2].msg >>
        /\ getResponseTo(MsgHeader(calls[p][2].msg)) = 5
        /\ MsgLen(calls[p][2].msg) = 1282

\* ------------------------------------------------------------------------
\* C14
\* ------------------------------------------------------------------------

\* the send operation of this step has put its stamped message, whole, at
\* the end of what it wrote
Transmits(p) ==
    \A m \in { ThisCall(p).msg } : \A w \in { Written(p) } :
        /\ RLen(w) >= MsgLen(m)
        /\ RDrop(w, RLen(w) - MsgLen(m)) = m

\* C14: reply(received, response) transmits response with responseTo equal
\* to received's requestId and a freshly drawn requestId; the reply with an
\* explicit responseTo transmits response with that responseTo; neither
\* modifies received.
C14_Reply ==
    [][\A p \in Handles :
          /\ Calls(p, {"reply"})
             => /\ getResponseTo(MsgHeader(ThisCall(p).msg)) = getId(MsgHeader(msg[p]))
                /\ getId(MsgHeader(ThisCall(p).msg)) = NextMsgId
                /\ NextMsgId' # NextMsgId
                /\ (ret'[p] = "void") => Transmits(p)
                /\ msg'[p] = msg[p]
          /\ Calls(p, {"replyTo"})
             => /\ getResponseTo(MsgHeader(ThisCall(p).msg)) = ThisCall(p).responseTo
                /\ getId(MsgHeader(ThisCall(p).msg)) = NextMsgId
                /\ NextMsgId' # NextMsgId
                /\ (ret'[p] = "void") => Transmits(p)
                /\ msg'[p] = msg[p]]_vars

\* a reply to the received message 99 has been written, stamped with
\* responseTo 99, and the received message is as it was
C14_Witness ==
    \E p \in Handles :
        /\ op[p] = "reply" /\ ret[p] = "void"
        /\ msg[p] # EmptyMessage /\ getId(MsgHeader(msg[p])) = 99
        /\ Len(writes[p]) = 1
        /\ FramesIn(writes[p][1]) = << calls[p][Len(calls[p])].msg >>
        /\ getResponseTo(MsgHeader(writes[p][1])) = 99
        /\ getId(MsgHeader(writes[p][1])) \notin {0, 99}

\* ------------------------------------------------------------------------
\* C15
\* ------------------------------------------------------------------------

\* the ids that the send operations of the handles have stamped so far
StampedIds ==
    { << p, i >> \in Handles \X (1..MaxOps + 1) :
         i <= Len(calls[p]) /\ calls[p][i].msg # EmptyMessage }

IdOf(c) == getId(MsgHeader(calls[c[1]][c[2]].msg))

\* the stamped id of every send operation
IdsStamped == [c \in StampedIds |-> IdOf(c)]

\* C15: the ids stamped by say() and piggyBack() on the handles, whatever
\* the interleaving of the calls, are pairwise distinct and none is 0 or
\* -1; each call draws exactly one id from the process-wide counter.
C15_DistinctIds ==
    /\ [](\A ids \in { IdsStamped } :
            \A c \in DOMAIN ids :
               /\ ids[c] \notin {0, -1}
               /\ \A d \in DOMAIN ids : (c # d) => ids[c] # ids[d])
    /\ [][\A p \in Handles :
            (Calls(p, {"say", "piggyBack", "reply", "replyTo", "call"})
               /\ ThisCall(p).msg # EmptyMessage)
            => /\ getId(MsgHeader(ThisCall(p).msg)) = NextMsgId
               /\ NextMsgId' # NextMsgId
               /\ NextMsgId' \notin { IdOf(c) : c \in StampedIds }
               /\ \A q \in Handles \ {p} : calls'[q] = calls[q]]_vars

\* both handles have stamped messages, three ids drawn across -1 and 0
C15_Witness ==
    /\ Len(calls[1]) = 2 /\ Len(calls[2]) = 1
    /\ { IdOf(c) : c \in StampedIds } = {-3, -2, 1}
    /\ calls[1][1].op = "piggyBack"

\* ------------------------------------------------------------------------
\* C16
\* ------------------------------------------------------------------------

\* the messages of the send operations cs, in call order
Messages(cs) == [i \in DOMAIN cs |-> cs[i].msg]

\* fs is ms with some elements left out
RECURSIVE IsSubSeqOf(_, _)
IsSubSeqOf(fs, ms) ==
    IF fs = << >> THEN TRUE
    ELSE IF ms = << >> THEN FALSE
    ELSE IF Head(fs) = Head(ms) THEN IsSubSeqOf(Tail(fs), Tail(ms))
    ELSE IsSubSeqOf(fs, Tail(ms))

\* the step is a send operation of handle p or its destructor: the steps
\* that reach PiggyBackData::flush()
SendStep(p) ==
    \/ Len(calls'[p]) = Len(calls[p]) + 1
    \/ pc[p] # "destroyed" /\ pc'[p] = "destroyed"

\* C16: a flush of the empty buffer writes nothing and changes nothing; a
\* flush of a non-empty buffer makes exactly one transport write, whose
\* content is the messages appended since the previous flush in append
\* order, and leaves len() = 0. Messages of cumulative length <= 1300
\* appended and then flushed make exactly one write.
C16_Flush ==
    /\ [](\A p \in Handles :
            \A data \in { piggyBackData[p].data } :
            \A fs \in { FramesIn(data) } :
               /\ RCatAll(<< >>, fs) = data
               /\ IsSubSeqOf(fs, Messages(calls[p])))
    /\ [][\A p \in Handles :
            (SendStep(p) /\ sock[p] = "open")
            => \A data \in { piggyBackData[p].data } :
               \A ws \in { NewWritesSeq(p) } :
                  /\ \A i \in 1..Len(ws) : ws[i] # << >>
                  /\ (RLen(data) = 0) => (\A i \in 1..Len(ws) : Len(FramesIn(ws[i])) = 1)
                  /\ (RLen(data) > 0)
                     => \/ \* no flush: the buffer has grown by one message
                           /\ ws = << >>
                           /\ RTake(piggyBackData'[p].data, RLen(data)) = data
                           /\ \/ piggyBackData'[p].data = data
                              \/ /\ Calls(p, {"piggyBack"})
                                 /\ RDrop(piggyBackData'[p].data, RLen(data)) = ThisCall(p).msg
                        \/ \* one flush: the first write carries the buffer
                           /\ ws # << >>
                           /\ RTake(ws[1], RLen(data)) = data
                           /\ Len(FramesIn(RDrop(ws[1], RLen(data)))) <= 1
                           /\ \A i \in 2..Len(ws) : Len(FramesIn(ws[i])) = 1
                           /\ Len(FramesIn(piggyBackData'[p].data)) <= 1
                           /\ \A f \in { FramesIn(data)[i] : i \in 1..Len(FramesIn(data)) } :
                                 /\ f \notin { FramesIn(piggyBackData'[p].data)[i] :
                                                 i \in 1..Len(FramesIn(piggyBackData'[p].data)) }
                                 /\ \A i \in 2..Len(ws) : f \notin MessagesIn(ws[i])
                  /\ (pc'[p] = "destroyed")
                     => /\ Len(ws) = (IF RLen(data) > 0 THEN 1 ELSE 0)
                        /\ (RLen(data) > 0) => ws[1] = data]_vars

\* two messages of 18 and 1282 bytes appended, then flushed by the
\* destructor: one transport write with both, in append order
C16_Witness ==
    \E p \in Handles :
        /\ pc[p] = "destroyed"
        /\ Len(calls[p]) = 2
        /\ calls[p][1].op = "piggyBack" /\ calls[p][2].op = "piggyBack"
        /\ MsgLen(calls[p][1].msg) = 18 /\ MsgLen(calls[p][2].msg) = 1282
        /\ Len(writes[p]) = 1
        /\ FramesIn(writes[p][1]) = << calls[p][1].msg, calls[p][2].msg >>
        /\ RLen(writes[p][1]) = 1300

\* ------------------------------------------------------------------------
\* C17
\* ------------------------------------------------------------------------

\* the bytes pending in the piggyback buffer of handle p
Pending(p) == IF piggyBackData[p].alloc THEN piggyBackData[p].data ELSE << >>

\* C17: a say(m) over an open transport with p > 0 bytes pending makes
\* exactly two transport writes when p + len(m) > 1300, the pending bytes
\* and then m alone, and exactly one write when p + len(m) <= 1300, the
\* pending bytes followed by m; with nothing pending it makes one write of
\* m alone.
C17_SayWrites ==
    [][\A p \in Handles :
          (Calls(p, {"say"}) /\ ThisCall(p).msg # EmptyMessage /\ sock[p] = "open")
          => \A m \in { ThisCall(p).msg } :
             \A pending \in { Pending(p) } :
             \A ws \in { NewWritesSeq(p) } :
                IF RLen(pending) = 0 THEN ws = << m >>
                ELSE IF RLen(pending) + MsgLen(m) > 1300
                     THEN ws = << pending, m >>
                     ELSE ws = << RCat(pending, m) >>]_vars

\* 1300 bytes were pending and say() of an 18-byte message has made two
\* writes; before that, the second piggyBack() filled the buffer to its
\* end and made none
C17_Witness ==
    \E p \in Handles :
        /\ Len(calls[p]) = 3
        /\ calls[p][1].op = "piggyBack" /\ calls[p][2].op = "piggyBack"
        /\ calls[p][3].op = "say"
        /\ MsgLen(calls[p][3].msg) = 18
        /\ Len(writes[p]) = 2
        /\ RLen(writes[p][1]) = 1300
        /\ writes[p][2] = calls[p][3].msg
        /\ ret[p] = "void"

\* ------------------------------------------------------------------------
\* C18
\* ------------------------------------------------------------------------

\* the step is a piggyBack() of handle p that reaches
\* PiggyBackData::append
Appends(p) ==
    /\ Calls(p, {"piggyBack"})
    /\ MsgLen(ThisCall(p).msg) <= PiggyBackSize

\* C18: in every reachable state the cursor of a piggyback buffer is within
\* 0..1300 and the buffered bytes are a concatenation of whole messages;
\* append copies all totalLength bytes of its message, or, when the flush
\* it triggers fails, copies none and leaves the cursor where it was.
C18_BufferWholeMessages ==
    /\ [](\A p \in Handles :
            \A data \in { piggyBackData[p].data } :
               /\ 0 <= RLen(data) /\ RLen(data) <= 1300
               /\ \A fs \in { FramesIn(data) } :
                     /\ RCatAll(<< >>, fs) = data
                     /\ \A i \in DOMAIN fs :
                           \E j \in DOMAIN calls[p] : calls[p][j].msg = fs[i])
    /\ [][\A p \in Handles :
            Appends(p)
            => \A m \in { ThisCall(p).msg } :
               \A data \in { piggyBackData[p].data } :
               \A after \in { piggyBackData'[p].data } :
                  IF RLen(data) + MsgLen(m) > 1300 /\ RLen(data) > 0 /\ sock[p] # "open"
                  THEN /\ after = data
                       /\ ret'[p] = "SocketException"
                       /\ NewWritesSeq(p) = << >>
                  ELSE /\ ret'[p] = "void"
                       /\ RLen(m) = MsgLen(m)
                       /\ RLen(after) >= MsgLen(m)
                       /\ RDrop(after, RLen(after) - MsgLen(m)) = m
                       /\ RTake(after, RLen(after) - MsgLen(m))
                             = (IF RLen(data) + MsgLen(m) > 1300 THEN << >> ELSE data)]_vars

\* the transport is closed with 1282 bytes buffered, and the append of 1282
\* more has failed in its flush: the buffer holds the first message alone
C18_Witness ==
    \E p \in Handles :
        /\ sock[p] = "closed"
        /\ Len(calls[p]) = 2
        /\ calls[p][1].op = "piggyBack" /\ calls[p][2].op = "piggyBack"
        /\ MsgLen(calls[p][2].msg) = 1282
        /\ ret[p] = "SocketException"
        /\ piggyBackData[p].data = calls[p][1].msg
        /\ RLen(piggyBackData[p].data) = 1282
        /\ writes[p] = << >>

\* ------------------------------------------------------------------------
\* C19
\* ------------------------------------------------------------------------

\* the messages held in the piggyback buffer of handle p after the step
StoredAfter(p) ==
    { FramesIn(piggyBackData'[p].data)[i] :
        i \in 1..Len(FramesIn(piggyBackData'[p].data)) }

\* C19: piggyBack(m, r) with totalLength > 1300 transmits m before it
\* returns, never stores m in the piggyback buffer and does not allocate
\* the buffer; with totalLength <= 1300 it allocates the buffer if there is
\* none, stores m, and writes none of m's bytes to the transport during the
\* call: its only possible write is the flush of the bytes buffered before,
\* made when they plus m exceed 1300.
C19_PiggyBack ==
    [][\A p \in Handles :
          Calls(p, {"piggyBack"})
          => \A m \in { ThisCall(p).msg } :
             \A data \in { piggyBackData[p].data } :
             \A ws \in { NewWritesSeq(p) } :
                IF MsgLen(m) > 1300
                THEN /\ m \notin StoredAfter(p)
                     /\ piggyBackData'[p].alloc = piggyBackData[p].alloc
                     /\ (ret'[p] = "void")
                        => /\ ws # << >>
                           /\ ws[Len(ws)] = m
                           /\ \A i \in 1..(Len(ws) - 1) : m \notin MessagesIn(ws[i])
                ELSE /\ piggyBackData'[p].alloc
                     /\ \A i \in 1..Len(ws) : m \notin MessagesIn(ws[i])
                     /\ ws \in { << >>, << data >> }
                     /\ (ws # << >>) => (RLen(data) > 0 /\ RLen(data) + MsgLen(m) > 1300)
                     /\ (ret'[p] = "void")
                        => /\ m \in StoredAfter(p)
                           /\ Len(ws) = (IF RLen(data) + MsgLen(m) > 1300 /\ RLen(data) > 0
                                         THEN 1 ELSE 0)]_vars

\* a piggyBack() of 1301 bytes has written its message and allocated no
\* buffer; the piggyBack() of 18 bytes after it has allocated the buffer
\* and stored its message, and written nothing
C19_Witness ==
    \E p \in Handles :
        /\ Len(calls[p]) = 2
        /\ calls[p][1].op = "piggyBack" /\ MsgLen(calls[p][1].msg) = 1301
        /\ calls[p][2].op = "piggyBack" /\ MsgLen(calls[p][2].msg) = 18
        /\ writes[p] = << calls[p][1].msg >>
        /\ piggyBackData[p] = [alloc |-> TRUE, data |-> calls[p][2].msg]
        /\ op[p] = "piggyBack" /\ ret[p] = "void"

\* ------------------------------------------------------------------------
\* C20
\* ------------------------------------------------------------------------

\* w is a transport write of say(), piggyBack() or the destructor, and not
\* one of the two answers recv() writes
IsSendWrite(w) ==
    w \notin { HttpResponseBytes, RFromBytes(EndianReply(littleEndianHost)) }

\* the messages in the concatenation of all the transport writes the send
\* operations of handle p have made, in the order of the bytes
SentMessages(ws) == FramesIn(RCatAll(<< >>, SelectSeq(ws, IsSendWrite)))

\* C20: within one handle, for every sequence of say() and piggyBack()
\* calls over a transport that does not fail, the concatenation of all
\* transport writes is the messages' bytes in the order of the calls: no
\* message is written before one of an earlier call, none twice, and none
\* is missing once a later say() or the teardown of the handle has
\* completed.
C20_WritesInCallOrder ==
    /\ [](\A p \in Handles :
            (sock[p] = "open")
            => \A sent \in { SentMessages(writes[p]) } :
               \A all \in { Messages(calls[p]) } :
                  /\ Len(sent) <= Len(all)
                  /\ sent = SubSeq(all, 1, Len(sent))
                  /\ FramesIn(piggyBackData[p].data) = SubSeq(all, Len(sent) + 1, Len(all))
                  /\ RCatAll(<< >>, SelectSeq(writes[p], IsSendWrite)) = RCatAll(<< >>, sent))
    /\ [][\A p \in Handles :
            (sock[p] = "open" /\ (Calls(p, {"say"}) \/ pc'[p] = "destroyed"))
            => /\ SentMessages(writes'[p]) = Messages(calls'[p])
               /\ RLen(piggyBackData'[p].data) = 0]_vars

\* two piggyBack() calls of 1282 bytes, the second of which flushed the
\* first, and then the destructor: two writes, the messages in call order
C20_Witness ==
    \E p \in Handles :
        /\ pc[p] = "destroyed"
        /\ Len(calls[p]) = 2
        /\ calls[p][1].op = "piggyBack" /\ calls[p][2].op = "piggyBack"
        /\ calls[p][1].msg # calls[p][2].msg
        /\ writes[p] = << calls[p][1].msg, calls[p][2].msg >>
        /\ RLen(writes[p][1]) = 1282

\* ------------------------------------------------------------------------
\* C27
\* ------------------------------------------------------------------------

\* the step is the malloc(z) of recv() on handle p
Mallocs(p) == nMalloc'[p] = nMalloc[p] + 1

\* C27: for every accepted totalLength len, 16 <= len <= MaxMessageSizeBytes,
\* the receive-buffer size z = (len + 1023) & 0xfffffc00 is the smallest
\* multiple of 1024 that is >= len: z mod 1024 = 0, 0 <= z - len < 1024,
\* z = len exactly when len is a multiple of 1024; and the assertion
\* z >= len never fails.
C27_BufferSize ==
    /\ [](\A p \in Handles : ret[p] # "verify")
    /\ [][\A p \in Handles :
            Mallocs(p)
            => \A len \in { getMessageLength(header'[p]) } :
               \A z \in { rbuf'[p].z } :
                  /\ HeaderLen <= len /\ len <= MaxMessageSizeBytes
                  /\ z % 1024 = 0
                  /\ 0 <= z - len /\ z - len < 1024
                  /\ (z = len) <=> (len % 1024 = 0)
                  /\ z >= len]_vars

\* a message of 1025 bytes delivered in a buffer of 2048
C27_Witness ==
    /\ ret[1] = "true"
    /\ RLen(msg[1]) = 1025
    /\ rbuf[1].z = 2048
    /\ rbuf[1].owner = "message"

\* ------------------------------------------------------------------------
\* C21
\* ------------------------------------------------------------------------

\* the statements of ~MessagingPort as steps of handle p
DtorFlushes(p) == pc[p] = "idle" /\ pc'[p] = "dtor_flushed"
DtorCloses(p)  == pc[p] = "dtor_flushed" /\ pc'[p] = "dtor_closed"
DtorErases(p)  == pc[p] = "dtor_closed" /\ pc'[p] = "destroyed"

\* C21: in the destructor the pending piggyback bytes are offered to the
\* transport before the destructor closes it, and the close comes before
\* the handle is erased from the registry: on no path does the destructor
\* close the transport with piggyback bytes it has not yet offered.
C21_TeardownOrder ==
    /\ [](\A p \in Handles :
            (pc[p] \in {"dtor_closed", "destroyed"})
            => (piggyBackData[p] = NoPiggyBack /\ sock[p] = "closed"))
    /\ [][\A p \in Handles :
            /\ DtorFlushes(p)
               => /\ sock'[p] = sock[p]
                  /\ p \in ports'
                  /\ \A data \in { Pending(p) } :
                        /\ (sock[p] = "open" /\ RLen(data) > 0)
                           => NewWritesSeq(p) = << data >>
                        /\ (sock[p] # "open" \/ RLen(data) = 0)
                           => NewWritesSeq(p) = << >>
                  /\ piggyBackData'[p] = NoPiggyBack
            /\ DtorCloses(p)
               => /\ Pending(p) = << >>
                  /\ sock'[p] = "closed"
                  /\ p \in ports /\ p \in ports'
                  /\ NewWritesSeq(p) = << >>
            /\ DtorErases(p)
               => /\ sock[p] = "closed" /\ sock'[p] = "closed"
                  /\ p \in ports /\ p \notin ports'
            /\ (pc'[p] = "dtor_closed") => (pc[p] \in {"dtor_flushed", "dtor_closed"})
            /\ (pc'[p] = "destroyed") => (pc[p] \in {"dtor_closed", "destroyed"})
            /\ (Len(shutdowns'[p]) > Len(shutdowns[p])
                /\ shutdowns'[p][Len(shutdowns'[p])] = "destructor")
               => DtorCloses(p)]_vars

\* the handle is gone from the registry; its destructor wrote the message
\* that was pending and was the first to close the transport
C21_Witness ==
    \E p \in Handles :
        /\ pc[p] = "destroyed" /\ p \notin ports
        /\ Len(calls[p]) = 1 /\ calls[p][1].op = "piggyBack"
        /\ writes[p] = << calls[p][1].msg >>
        /\ shutdowns[p] = << "destructor" >>

\* ------------------------------------------------------------------------
\* C22
\* ------------------------------------------------------------------------

\* the number of bits tag and mask have in common, by arithmetic on the
\* three low bits the tags and masks of the model use
CommonBits(t, mask) ==
    Cardinality({ i \in 0..2 : (t \div (2 ^ i)) % 2 = 1 /\ (mask \div (2 ^ i)) % 2 = 1 })

\* the step is one of some closeAll: an operation that leaves the flows,
\* the streams and the registry alone and logs nothing but "closeAll"
CloseAllStep ==
    /\ ops' = ops + 1
    /\ UNCHANGED << pc, stream, calls, ports >>
    /\ \A p \in Handles :
          \/ shutdowns'[p] = shutdowns[p]
          \/ shutdowns'[p] = Append(shutdowns[p], "closeAll")

\* C22: closeAll(skipMask) invokes shutdown() on exactly the registered
\* handles whose tag has no bit in common with skipMask, once each, and on
\* no handle whose tag intersects skipMask; closeAll(0) shuts down every
\* registered handle, and a handle with tag 0 is shut down for every mask.
C22_CloseAll ==
    [][\A skip_mask \in SkipMasks :
          (CloseAllStep /\ CloseAll(skip_mask))
          => \A p \in Handles :
                /\ (p \in ports /\ CommonBits(tag[p], skip_mask) = 0)
                   => /\ shutdowns'[p] = Append(shutdowns[p], "closeAll")
                      /\ sock'[p] = "closed"
                /\ ~(p \in ports /\ CommonBits(tag[p], skip_mask) = 0)
                   => /\ shutdowns'[p] = shutdowns[p]
                      /\ sock'[p] = sock[p]
                /\ (p \in ports /\ (skip_mask = 0 \/ tag[p] = 0))
                   => sock'[p] = "closed"
                /\ ports' = ports]_vars

\* handles tagged 1 and 3 are registered and open, and closeAll(2) has shut
\* down the one tagged 1 alone
C22_Witness ==
    /\ ports = Handles
    /\ tag[1] = 1 /\ tag[2] = 3
    /\ shutdowns[1] = << "closeAll" >> /\ sock[1] = "closed"
    /\ shutdowns[2] = << >> /\ sock[2] = "open"

\* ------------------------------------------------------------------------
\* C23
\* ------------------------------------------------------------------------

\* the step invokes shutdown() on handle p
ShutsDown(p) == Len(shutdowns'[p]) = Len(shutdowns[p]) + 1

\* C23: shutdown() is idempotent: invoked on a handle whose transport is
\* already closed, by an earlier shutdown(), by closeAll() or by the
\* destructor, in any interleaving of the flows, it leaves the state as the
\* first call left it and raises no error.
C23_ShutdownIdempotent ==
    [][\A p \in Handles :
          ShutsDown(p)
          => /\ sock'[p] = "closed"
             /\ ret'[p] = ret[p]
             /\ (sock[p] = "closed")
                => /\ UNCHANGED << recvVars, piggyBackData, ports, stream, writes,
                                   calls, NextMsgId, op, ret, inCall, toSendId >>
                   /\ \A q \in Handles : q # p /\ ~ShutsDown(q) => sock'[q] = sock[q]]_vars

\* closeAll, a direct shutdown() and the destructor have each invoked
\* shutdown() on the same handle
C23_Witness ==
    \E p \in Handles :
        /\ Len(shutdowns[p]) = 3
        /\ { shutdowns[p][i] : i \in 1..3 } = { "closeAll", "shutdown", "destructor" }
        /\ sock[p] = "closed"
        /\ ret[p] \in { "none", "void" }

\* ------------------------------------------------------------------------
\* C24
\* ------------------------------------------------------------------------

\* the handles whose constructor has registered them and whose destructor
\* has not erased them yet
Registered == { p \in Handles : pc[p] \notin { "unborn", "ctor", "destroyed" } }

\* C24: a handle is inserted into the registry exactly once, by its
\* constructor, and erased exactly once, by its destructor; between the
\* registry operations the registry is the set of the handles constructed
\* and not yet erased.
C24_RegistryMembership ==
    /\ [](ports = Registered)
    /\ [][\A p \in Handles :
            /\ (p \notin ports /\ p \in ports')
               => (pc[p] = "unborn" /\ pc'[p] = "idle")
            /\ (pc[p] = "unborn" /\ pc'[p] # "unborn")
               => (p \notin ports /\ p \in ports')
            /\ (p \in ports /\ p \notin ports') => DtorErases(p)
            /\ DtorErases(p) => (p \in ports /\ p \notin ports')
            /\ (pc[p] = "destroyed") => (pc'[p] = "destroyed")
            /\ (pc'[p] = "unborn") => (pc[p] = "unborn")]_vars

\* handle 2 has been constructed and registered after the start; handle 1
\* has been destroyed and erased
C24_Witness ==
    /\ ports = {2}
    /\ pc[2] = "idle"
    /\ pc[1] = "destroyed"

\* ------------------------------------------------------------------------
\* C25
\* ------------------------------------------------------------------------

\* the flow of handle p is inside recv(), at one of its transport reads
InRecv(p) == pc[p] \in { "recv_hdr", "recv_body" }

\* closeAll was the last to shut handle p down
ClosedByCloseAll(p) ==
    /\ sock[p] = "closed"
    /\ shutdowns[p] # << >>
    /\ shutdowns[p][Len(shutdowns[p])] = "closeAll"

\* recv() on handle p has returned false and its output Message is empty
RecvFailed(p) ==
    pc[p] = "idle" /\ op[p] = "recv" /\ ret[p] = "false" /\ msg[p] = EmptyMessage

\* C25: when the flow of a handle is blocked inside recv() and another flow
\* calls closeAll(skipMask) with a mask that does not intersect the tag of
\* the handle, the blocked recv() eventually returns, and it returns
\* failure with an empty output Message.
C25_CloseAllUnblocksRecv ==
    /\ [][\A skip_mask \in SkipMasks :
            (InRecv(1) /\ CloseAllStep /\ CloseAll(skip_mask)
             /\ CommonBits(tag[1], skip_mask) = 0)
            => (InRecv(1)' /\ ClosedByCloseAll(1)')]_vars
    /\ [][(InRecv(1) /\ sock[1] = "closed" /\ ~InRecv(1)') => RecvFailed(1)']_vars
    /\ ((InRecv(1) /\ ClosedByCloseAll(1)) ~> RecvFailed(1))

\* recv() had read a header and was waiting for the payload when closeAll
\* closed the transport: it has returned false, the buffer freed
C25_Witness ==
    /\ RecvFailed(1)
    /\ shutdowns[1] = << "closeAll" >>
    /\ bytesIn[1] = HeaderLen
    /\ rbuf[1].owner = "freed"

\* ------------------------------------------------------------------------
\* C26
\* ------------------------------------------------------------------------

\* shutdown() has been invoked on handle p, directly, through closeAll or
\* by the destructor
WasShutDown(p) == shutdowns[p] # << >>

\* C26: Closed is terminal: once shutdown() has been invoked on a handle,
\* directly or through closeAll, no operation reopens its transport, and
\* every recv() on it that ends after that fails without delivering a
\* Message.
C26_ClosedIsTerminal ==
    /\ [](\A p \in Handles : WasShutDown(p) => sock[p] = "closed")
    /\ [][\A p \in Handles :
            /\ (sock[p] = "closed") => (sock'[p] = "closed")
            /\ (WasShutDown(p) /\ InRecv(p) /\ ~InRecv(p)')
               => /\ ret'[p] = "false"
                  /\ msg'[p] = EmptyMessage
                  /\ bytesIn'[p] = bytesIn[p]
            /\ (WasShutDown(p) /\ InRecv(p))
               => (bytesIn'[p] = bytesIn[p] /\ nMalloc'[p] = nMalloc[p])]_vars

\* a whole message lies unread in the stream of a handle that was shut
\* down, and the recv() on it has failed
C26_Witness ==
    \E p \in Handles :
        /\ RecvFailed(p)
        /\ shutdowns[p] = << "shutdown" >>
        /\ bytesIn[p] = 0
        /\ MessagesIn(stream[p]) # {}

\* ------------------------------------------------------------------------
\* C28
\* ------------------------------------------------------------------------

\* recv() on handle p leaves its payload read in this step
PayloadReadEnds(p) == pc[p] = "recv_body" /\ pc'[p] # "recv_body"

\* C28: a receive buffer allocated by recv() has exactly one owner and is
\* released exactly once: when the payload read succeeds the output
\* Message owns it and recv() does not free it; when the payload read fails
\* recv() frees it exactly once and the output Message does not refer to
\* it. On no path is it freed twice, leaked, or both freed and owned.
C28_BufferOwnership ==
    /\ [](\A p \in Handles :
            /\ rbuf[p].owner \in { "none", "guard", "message", "freed" }
            /\ (rbuf[p].owner = "guard") <=> (pc[p] = "recv_body")
            /\ (rbuf[p].owner = "freed") <=> (rbuf[p].frees = 1)
            /\ (rbuf[p].owner # "freed") => (rbuf[p].frees = 0)
            /\ (rbuf[p].owner = "none") <=> (nMalloc[p] = 0))
    /\ [][\A p \in Handles :
            /\ (PayloadReadEnds(p) /\ sock[p] = "open")
               => /\ ret'[p] = "true"
                  /\ bytesIn'[p] = bytesIn[p] + (MsgLen(msg'[p]) - HeaderLen)
                  /\ rbuf'[p] = [rbuf[p] EXCEPT !.owner = "message"]
                  /\ msg'[p] # EmptyMessage
                  /\ MsgHeader(msg'[p]) = header[p]
                  /\ RLen(msg'[p]) <= rbuf[p].z
            /\ (PayloadReadEnds(p) /\ sock[p] # "open")
               => /\ ret'[p] = "false"
                  /\ bytesIn'[p] = bytesIn[p]
                  /\ rbuf'[p] = [rbuf[p] EXCEPT !.owner = "freed", !.frees = 1]
                  /\ msg'[p] = EmptyMessage
            /\ (~PayloadReadEnds(p) /\ ~Mallocs(p)) => (rbuf'[p] = rbuf[p])
            /\ Mallocs(p) => (rbuf'[p].owner = "guard" /\ rbuf'[p].frees = 0)]_vars

\* the transport was closed under the payload read of the only buffer the
\* handle has allocated: the buffer is freed, once, the Message empty
C28_Witness ==
    \E p \in Handles :
        /\ nMalloc[p] = 1
        /\ rbuf[p].owner = "freed" /\ rbuf[p].frees = 1
        /\ pc[p] = "idle" /\ ret[p] = "false"
        /\ msg[p] = EmptyMessage

\* ------------------------------------------------------------------------
\* C29
\* ------------------------------------------------------------------------

\* C29: for every message size, piggyBack(m, r) leaves m, as it is
\* transmitted, with the responseTo field r of the caller, both when m is
\* buffered (totalLength <= 1300) and when it is sent at once
\* (totalLength > 1300).
C29_PiggyBackKeepsResponseTo ==
    [][\A p \in Handles :
          Calls(p, {"piggyBack"})
          => \A c \in { ThisCall(p) } :
                /\ getResponseTo(MsgHeader(c.msg)) = c.responseTo
                /\ (MsgLen(c.msg) > PiggyBackSize /\ ret'[p] = "void")
                   => \E w \in NewWrites(p) :
                         \E m \in MessagesIn(w) :
                            /\ getId(MsgHeader(m)) = getId(MsgHeader(c.msg))
                            /\ getResponseTo(MsgHeader(m)) = c.responseTo]_vars

\* ------------------------------------------------------------------------
\* C30
\* ------------------------------------------------------------------------

\* C30: the precondition of PiggyBackData::append is never violated
\* through say() and piggyBack(), whatever the lengths of the messages:
\* append is given only messages of totalLength <= 1300, and at the copy
\* cursor + totalLength <= 1300; the assertion of append never fires and no
\* byte is written past the 1300 bytes of the buffer.
C30_AppendPrecondition ==
    /\ [](\A p \in Handles :
            /\ ret[p] # "verify"
            /\ RLen(piggyBackData[p].data) <= 1300
            /\ \A i \in 1..Len(FramesIn(piggyBackData[p].data)) :
                  MsgLen(FramesIn(piggyBackData[p].data)[i]) <= 1300)
    /\ [][\A p \in Handles :
            Calls(p, {"say", "piggyBack", "reply", "replyTo"})
            => \A m \in { ThisCall(p).msg } :
               \A ws \in { NewWritesSeq(p) } :
                  /\ \A i \in 1..Len(ws) : ws[i] = m \/ RLen(ws[i]) <= 1300
                  /\ (piggyBackData'[p].data # piggyBackData[p].data
                      /\ piggyBackData'[p].data # << >>)
                     => /\ MsgLen(m) <= 1300
                        /\ RLen(piggyBackData'[p].data) - MsgLen(m) >= 0
                        /\ RLen(piggyBackData'[p].data) <= 1300
                  /\ (MsgLen(m) > 1300)
                     => \A i \in 1..Len(ws) : m \notin MessagesIn(ws[i]) \/ ws[i] = m]_vars

\* the second append has filled the buffer to its last byte
C30_Witness ==
    \E p \in Handles :
        /\ RLen(piggyBackData[p].data) = 1300
        /\ Len(FramesIn(piggyBackData[p].data)) = 2
        /\ op[p] = "piggyBack" /\ ret[p] = "void"
        /\ writes[p] = << >>

\* ------------------------------------------------------------------------
\* C31
\* ------------------------------------------------------------------------

\* psock->setHandshakeReceived() takes effect on handle p in this step
SetsHandshakeReceived(p) == awaitingHandshake[p] /\ ~awaitingHandshake'[p]

\* the header has a length recv() accepts for a message
WellFormedLength(h) ==
    /\ ~Sentinel(getMessageLength(h))
    /\ ~OutOfBounds(getMessageLength(h))

\* the calls of the handshake entry point of the transport of p so far
HandshakeCalls(p) == Len(sslFirstBytes[p])

\* C31: the handshake-received flag of a connection is monotone and is set
\* only by an endian probe, a completed TLS handshake or a header with a
\* well-formed length read by recv(); an HTTP header, a framing error, a
\* handshake error and a transport error leave it unset; and the handshake
\* entry point of the transport is invoked at most once per connection.
C31_HandshakeFlag ==
    /\ [][\A p \in Handles :
            /\ ~awaitingHandshake[p] => ~awaitingHandshake'[p]
            /\ SetsHandshakeReceived(p)
               => /\ ReadsHeader(p)
                  /\ \A h \in { NextHeader(p) } :
                        \/ getMessageLength(h) = -1
                        \/ TakenAsTlsHello(p, h) /\ secured'[p]
                        \/ WellFormedLength(h)
            /\ (awaitingHandshake[p] /\ pc[p] = "recv_hdr" /\ pc'[p] = "idle"
                /\ ret'[p] \in {"false"} \cup HandshakeErrors)
               => awaitingHandshake'[p]
            /\ HandshakeCalls(p)' > HandshakeCalls(p) => awaitingHandshake[p]]_vars
    /\ [](\A p \in Handles : HandshakeCalls(p) <= 1)

\* ------------------------------------------------------------------------
\* C32
\* ------------------------------------------------------------------------

\* recv() on p handles the header as a TLS client hello in this step: the
\* handshake entry point gets the header, or a handshake assertion for a
\* build or a configuration without TLS leaves recv()
TreatedAsClientHello(p) ==
    \/ sslFirstBytes'[p] = Append(sslFirstBytes[p], NextHeader(p))
    \/ /\ HandshakeCalls(p)' = HandshakeCalls(p)
       /\ pc'[p] = "idle"
       /\ ret'[p] \in {"uassert17133", "uassert17132"}

\* C32: an endian probe leaves the connection in state New: the header
\* read after the echo is still subject to the TLS detection of the first
\* read, and when its responseTo is not in {0, -1} it is treated as a TLS
\* client hello.
C32_ProbeKeepsNew ==
    [][\A p \in Handles :
          /\ (ReadsHeader(p) /\ awaitingHandshake[p]
              /\ getMessageLength(NextHeader(p)) = -1)
             => awaitingHandshake'[p]
          /\ (ReadsHeader(p)
              /\ (\E k \in 1..MaxOps : OnlyProbesRead(p, k))
              /\ ~Sentinel(getMessageLength(NextHeader(p)))
              /\ getResponseTo(NextHeader(p)) \notin {0, -1})
             => TreatedAsClientHello(p)]_vars

\* ------------------------------------------------------------------------
\* C36
\* ------------------------------------------------------------------------

\* the step is a say() of handle p, entered directly, through reply() or
\* from piggyBack() for a message above the piggyback threshold, and it
\* returns normally
SayReturns(p) ==
    /\ \/ Calls(p, {"say", "reply", "replyTo"})
       \/ Calls(p, {"piggyBack"}) /\ MsgLen(ThisCall(p).msg) > PiggyBackSize
    /\ ret'[p] = "void"

\* C36: whenever say() returns normally the piggyback buffer of the
\* connection holds no pending bytes (len() is 0 or the buffer was never
\* allocated), and every message that earlier piggyBack() calls buffered
\* has been written to the transport.
C36_SayLeavesNothingPending ==
    [][\A p \in Handles :
          SayReturns(p)
          => /\ RLen(piggyBackData'[p].data) = 0
             /\ Pending(p)' = << >>
             /\ piggyBackData'[p].alloc = piggyBackData[p].alloc
             /\ \A sent \in { SentMessages(writes'[p]) } :
                \A i \in 1..Len(calls[p]) :
                   (calls[p][i].op = "piggyBack")
                   => \E j \in 1..Len(sent) : sent[j] = calls[p][i].msg]_vars

\* a say() has returned on a handle that had piggybacked a message: one
\* write carries both, the buffer is allocated and empty
C36_Witness ==
    \E p \in Handles :
        /\ Len(calls[p]) = 2
        /\ calls[p][1].op = "piggyBack" /\ calls[p][2].op = "say"
        /\ op[p] = "say" /\ ret[p] = "void"
        /\ piggyBackData[p].alloc /\ RLen(piggyBackData[p].data) = 0
        /\ writes[p] = << RCat(calls[p][1].msg, calls[p][2].msg) >>

\* ------------------------------------------------------------------------
\* C38
\* ------------------------------------------------------------------------

\* C38: setConnectionId(id) succeeds only when the connection id of the
\* handle is 0, and then stores id; once it has succeeded with a non-zero
\* id every later setConnectionId fails its assertion and leaves the
\* stored id as it is: the non-zero id of a connection never changes.
C38_ConnectionIdSetOnce ==
    [][\A p \in Handles :
          /\ (connectionId[p] # 0) => (connectionId'[p] = connectionId[p])
          /\ \A id \in ConnectionIds :
                SetConnectionId(p, id)
                => /\ (ret'[p] = "void") <=> (connectionId[p] = 0)
                   /\ (connectionId[p] = 0) => (connectionId'[p] = id)
                   /\ (connectionId[p] # 0)
                      => (ret'[p] = "verify" /\ connectionId'[p] = connectionId[p])
                   /\ \A q \in Handles \ {p} : connectionId'[q] = connectionId[q]]_vars

\* the handle got id 2 after a setConnectionId(0), and a later call has
\* failed its assertion
C38_Witness ==
    \E p \in Handles :
        /\ connectionId[p] = 2
        /\ op[p] = "setConnectionId" /\ ret[p] = "verify"
        /\ ops = 3

\* ------------------------------------------------------------------------
\* C33
\* ------------------------------------------------------------------------

\* the MessagingPort object of handle p exists: its constructor has made
\* the transport and its destructor has not returned
Alive(p) == pc[p] \notin { "unborn", "destroyed" } /\ sock[p] # "none"

\* the flow c is inside the critical section of closeAll
InCloseAll(c) == closeAllFlow[c].pc = "loop"

\* the step is a turn of the loop of the closeAll of flow c: it reads the
\* tag of the handle under the iterator and may call shutdown() on it
TouchesHandle(c) ==
    /\ InCloseAll(c)
    /\ closeAllFlow[c].i # 0
    /\ closeAllFlow'[c] # closeAllFlow[c]

\* C33: under every interleaving of closeAll() with the construction and
\* destruction of handles on other flows, closeAll() never reads the tag
\* of, or calls shutdown() on, a handle that its destructor has erased from
\* the registry; an erase that overlaps a running closeAll() waits until
\* the closeAll() has finished, so the handle and its transport are alive
\* whenever closeAll() touches them.
C33_CloseAllTouchesLiveHandles ==
    /\ [](\A c \in Closers :
            /\ (mutex = c) <=> InCloseAll(c)
            /\ InCloseAll(c)
               => /\ closeAllFlow[c].i \in ports \cup {0}
                  /\ closeAllFlow[c].seen \subseteq ports
                  /\ \A p \in ports : Alive(p))
    /\ [][\A c \in Closers :
            /\ TouchesHandle(c)
               => \A p \in { closeAllFlow[c].i } :
                     /\ p \in ports /\ p \in ports'
                     /\ Alive(p) /\ Alive(p)'
                     /\ pc[p] # "ctor"
                     /\ << p, pc[p] >> \in closeAllFlow'[c].touched
            /\ InCloseAll(c) => ports' = ports
            /\ \A p \in Handles :
                  (DtorErases(p) \/ (pc[p] = "ctor" /\ pc'[p] = "idle"))
                  => (mutex = "free" /\ ~InCloseAll(c))]_vars

\* a closeAll has shut down a handle whose destructor had already closed
\* the transport and was about to erase the handle; the erase came after
\* the closeAll had finished
C33_Witness ==
    \E c \in Closers, p \in Handles :
        /\ << p, "dtor_closed" >> \in closeAllFlow[c].touched
        /\ closeAllFlow[c].pc = "idle"
        /\ shutdowns[p] = << "destructor", "closeAll" >>
        /\ pc[p] = "destroyed" /\ p \notin ports

\* ------------------------------------------------------------------------
\* C34
\* ------------------------------------------------------------------------

\* the flow c has entered closeAll and has not left it
CloseAllRunning(c) == closeAllFlow[c].pc # "idle"

\* the constructor of handle p has started and has not returned
Constructing(p) == pc[p] = "ctor"

\* the destructor of handle p has started and has not returned
Destroying(p) == pc[p] \in { "dtor_flushed", "dtor_closed" }

\* C34: the registry operations are deadlock-free: with flows running
\* closeAll(), constructors (insert) and destructors (shutdown, then erase)
\* concurrently, every operation that has started eventually completes;
\* shutdown() is invoked under the registry mutex and never acquires it.
C34_RegistryDeadlockFree ==
    /\ [][\A c \in Closers :
            TouchesHandle(c) => (mutex = c /\ mutex' = c)]_vars
    /\ [][\A p \in Handles :
            (DtorCloses(p) \/ ShutsDown(p)) => mutex' = mutex]_vars
    /\ \A c \in Closers : CloseAllRunning(c) ~> ~CloseAllRunning(c)
    /\ \A p \in Handles : Constructing(p) ~> (pc[p] = "idle" /\ p \in ports)
    /\ \A p \in Handles : Destroying(p) ~> (pc[p] = "destroyed" /\ p \notin ports)

\* one closeAll holds the mutex and is at a handle; the other closeAll, a
\* constructor and a destructor's erase all wait for the mutex
C34_Witness ==
    /\ mutex = "c1"
    /\ closeAllFlow["c1"].i = 1
    /\ closeAllFlow["c2"].pc = "lock"
    /\ pc[2] = "ctor"
    /\ pc[1] = "dtor_closed"

\* ------------------------------------------------------------------------
\* C35
\* ------------------------------------------------------------------------

\* the step is one of the closeAll of flow c: the call, the lock, a turn of
\* the loop or the return
CloseAllActs(c) == closeAllFlow'[c] # closeAllFlow[c]

\* closeAll has invoked shutdown() on handle p
ShutDownByCloseAll(p) ==
    \E k \in 1..Len(shutdowns[p]) : shutdowns[p][k] = "closeAll"

\* C35: closeAll(skipMask) changes nothing but the open/closed state of
\* the transports it shuts down: the membership of the registry, the tag of
\* every handle and the contents of every piggyback buffer are after
\* closeAll() what they were before; the handles it has shut down stay
\* registered until their own destructor erases them.
C35_CloseAllFrame ==
    /\ [][\A c \in Closers :
            CloseAllActs(c)
            => /\ ports' = ports
               /\ tag' = tag
               /\ piggyBackData' = piggyBackData
               /\ UNCHANGED << stream, writes, calls, pc, op, ret, recvVars,
                               connectionId, NextMsgId >>
               /\ \A p \in Handles :
                     (sock'[p] # sock[p])
                     => /\ sock[p] = "open" /\ sock'[p] = "closed"
                        /\ p = closeAllFlow[c].i
                        /\ CommonBits(tag[p], closeAllFlow[c].skip_mask) = 0]_vars
    /\ [][\A p \in Handles : (p \in ports /\ p \notin ports') => DtorErases(p)]_vars
    /\ [](\A p \in Handles :
            (ShutDownByCloseAll(p) /\ pc[p] # "destroyed") => p \in ports)

\* a closeAll has returned after shutting down a handle that has a message
\* pending: the handle is still registered, its buffer still holds the
\* message, nothing was written
C35_Witness ==
    \E c \in Closers :
        /\ closeAllFlow[c].pc = "idle"
        /\ << 1, "idle" >> \in closeAllFlow[c].touched
        /\ shutdowns[1] = << "closeAll" >> /\ sock[1] = "closed"
        /\ 1 \in ports /\ pc[1] = "idle"
        /\ Len(calls[1]) = 1
        /\ Pending(1) = calls[1][1].msg
        /\ writes[1] = << >>

\* ------------------------------------------------------------------------
\* C37
\* ------------------------------------------------------------------------

\* the flow of handle p enters ~MessagingPort in this step
EntersDestructor(p) == pc[p] = "idle" /\ op'[p] = "destroy" /\ pc'[p] # "idle"

\* the destructor of handle p is past its flush, and messages the handle
\* had buffered were not written: the flush failed
FlushFailedInDestructor(p) ==
    /\ pc[p] \notin { "unborn", "ctor", "idle", "destroyed" }
    /\ Len(SentMessages(writes[p])) < Len(calls[p])

\* C37: a transport failure while the destructor flushes the pending
\* piggyback bytes does not escape the destructor: the handle still closes
\* its transport and is still erased from the registry, also when closeAll()
\* had closed the transport before the destructor ran.
C37_DestructorSurvivesFlushFailure ==
    /\ [][\A p \in Handles :
            EntersDestructor(p)
            => /\ pc'[p] = "dtor_flushed"
               /\ ret'[p] = ret[p]
               /\ p \in ports'
               /\ (sock[p] # "open" /\ RLen(Pending(p)) > 0)
                  => (NewWritesSeq(p) = << >> /\ FlushFailedInDestructor(p)')]_vars
    /\ \A p \in Handles :
          FlushFailedInDestructor(p)
          ~> (pc[p] = "destroyed" /\ sock[p] = "closed" /\ p \notin ports
              /\ ret[p] = "void"
              /\ \E k \in 1..Len(shutdowns[p]) : shutdowns[p][k] = "destructor")

\* closeAll had closed the transport of a handle with a message pending;
\* the destructor could not write it, and has closed and erased the handle
C37_Witness ==
    \E p \in Handles :
        /\ pc[p] = "destroyed" /\ p \notin ports
        /\ shutdowns[p] = << "closeAll", "destructor" >>
        /\ Len(calls[p]) = 1 /\ calls[p][1].op = "piggyBack"
        /\ writes[p] = << >>
        /\ ret[p] = "void"

====
